---- MODULE Spec2Model ----
(***************************************************************************)
(* A model of the DietCheck plugin (src/plugin.py): the process-wide       *)
(* dietary profile, the safety analysis of one product record against it,  *)
(* the nutrient filter of the text search and the search loop.             *)
(*                                                                         *)
(* Python values are tagged records: [t |-> "absent"] is a missing dict    *)
(* key, [t |-> "none"] is None, [t |-> "str", s |-> ...] a string,         *)
(* [t |-> "int" / "float", n |-> ...] a number, [t |-> "list", l |-> ...]  *)
(* a list and [t |-> "dict", d |-> ...] a dict kept as the sequence of its *)
(* <<key, value>> items in insertion order.  Numbers are counted in tenths *)
(* (3.0 is 30, 0.3 is 3), which is exact for every number of the program   *)
(* and of the inputs.  Strings are TLA+ strings, read character by         *)
(* character with SubSeq.                                                  *)
(***************************************************************************)
EXTENDS Integers, Sequences, FiniteSets, TLC

VARIABLES
    USER_PROFILE,     \* the global profile: PyNone or a dict record
    PROFILE_FILE,     \* the profile file: Absent, the document dumped, or one cut short
    pc,               \* main(): "idle", in a handler, "responded", "stopped", "raised"
    request,          \* the tool call being answered
    response,         \* what the handler returned
    catalog_requests, \* requests.get calls of the handler call being answered
    filters,          \* search_food_product: the filters dict
    limits,           \* search_food_product: fat_limit ... max_protein_limit
    spc,              \* search_food_product: position in the handler
    total_checked,    \* search_food_product: products inspected so far
    filtered_results, \* search_food_product: len(filtered_results)
    cur,              \* search_food_product: the product of this iteration
    outcome,          \* search_food_product: what the iteration computed
    earlier,          \* history: one earlier call with its answer, kept to compare
    reader,           \* analyze_product_safety line by line: position and locals
    loop,             \* main(): the tool calls received, waiting and answered
    analyses,         \* analyze_product_safety calls of the handler call being answered
    file_io           \* what the handler being answered logged of the profile file

vars == <<USER_PROFILE, PROFILE_FILE, pc, request, response, catalog_requests, filters,
          limits, spc, total_checked, filtered_results, cur, outcome, earlier, reader, loop,
          analyses, file_io>>

mainVars == <<USER_PROFILE, PROFILE_FILE, pc, request, response, catalog_requests, loop,
             analyses, file_io>>
searchVars == <<filters, limits, spc, total_checked, filtered_results, cur, outcome>>

-----------------------------------------------------------------------------
(* Python values *)

Absent == [t |-> "absent"]
PyNone == [t |-> "none"]
PyStr(s) == [t |-> "str", s |-> s]
PyInt(n) == [t |-> "int", n |-> n]
PyFloat(tenths) == [t |-> "float", n |-> tenths]
PyBool(b) == [t |-> "bool", b |-> b]
PyList(l) == [t |-> "list", l |-> l]
PyDict(items) == [t |-> "dict", d |-> items]
PyTuple(l) == [t |-> "tuple", l |-> l]

\* dict.get(key, default) on a record field: the default only for a missing key
Get(v, default) == IF v.t = "absent" THEN default ELSE v

\* isinstance(value, (int, float)); a bool is an int of Python
IsNumber(v) == v.t \in {"int", "float", "bool"}

\* the value of a number, in tenths; True is 1 and False is 0
Tenths(v) ==
    CASE v.t = "int" -> 10 * v.n
      [] v.t = "float" -> v.n
      [] v.t = "bool" -> (IF v.b THEN 10 ELSE 0)

\* truth value of a Python object
Truthy(v) ==
    CASE v.t = "bool" -> v.b
      [] v.t \in {"int", "float"} -> v.n # 0
      [] v.t = "str" -> v.s # ""
      [] v.t = "list" -> Len(v.l) > 0
      [] v.t = "dict" -> Len(v.d) > 0
      [] v.t = "tuple" -> Len(v.l) > 0
      [] OTHER -> FALSE

-----------------------------------------------------------------------------
(* Python strings *)

Char(s, i) == SubSeq(s, i, i)

\* the upper-case letters with their lower-case letters
LowerOf ==
    [A |-> "a", B |-> "b", C |-> "c", D |-> "d", E |-> "e", F |-> "f", G |-> "g",
     H |-> "h", I |-> "i", J |-> "j", K |-> "k", L |-> "l", M |-> "m", N |-> "n",
     O |-> "o", P |-> "p", Q |-> "q", R |-> "r", S |-> "s", T |-> "t", U |-> "u",
     V |-> "v", W |-> "w", X |-> "x", Y |-> "y", Z |-> "z"]
UpperOf ==
    [a |-> "A", b |-> "B", c |-> "C", d |-> "D", e |-> "E", f |-> "F", g |-> "G",
     h |-> "H", i |-> "I", j |-> "J", k |-> "K", l |-> "L", m |-> "M", n |-> "N",
     o |-> "O", p |-> "P", q |-> "Q", r |-> "R", s |-> "S", t |-> "T", u |-> "U",
     v |-> "V", w |-> "W", x |-> "X", y |-> "Y", z |-> "Z"]
UpperLetters == DOMAIN LowerOf
LowerLetters == DOMAIN UpperOf

Digits == "0123456789"
DigitSet == {"0", "1", "2", "3", "4", "5", "6", "7", "8", "9"}

IsDigit(c) == c \in DigitSet
DigitValue(c) == (CHOOSE i \in 1..10 : Char(Digits, i) = c) - 1

\* the control characters of ASCII, the one of code i at place i (a text of
\* the model holds no character of code 0), and the one of code 127
Controls == "" \o "\t\n" \o "" \o "\f\r" \o ""
Delete == ""
ControlSet == {Char(Controls, i) : i \in 1..Len(Controls)}
CodeOf(c) == CHOOSE i \in 1..Len(Controls) : Char(Controls, i) = c

\* str.isspace() of an ASCII character: the blank, the codes 9 to 13 (tab,
\* line feed, vertical tab, form feed, carriage return) and 28 to 31 (the
\* four separators); str.strip() and \s of a pattern use it
IsSpace(c) == c = " " \/ (c \in ControlSet /\ CodeOf(c) \in (9..13) \cup (28..31))

\* what float() drops around an ASCII text: the same without the separators
IsFloatSpace(c) == c = " " \/ (c \in ControlSet /\ CodeOf(c) \in 9..13)

LowerChar(c) == IF c \in UpperLetters THEN LowerOf[c] ELSE c

Least(S) == CHOOSE x \in S : \A y \in S : x <= y
Greatest(S) == CHOOSE x \in S : \A y \in S : y <= x

\* str.lower()
\* (the text is halved so that the recursion stays shallow)
RECURSIVE StrLower(_)
StrLower(s) ==
    IF Len(s) = 0 THEN ""
    ELSE IF Len(s) = 1 THEN LowerChar(s)
    ELSE StrLower(SubSeq(s, 1, Len(s) \div 2)) \o StrLower(SubSeq(s, Len(s) \div 2 + 1, Len(s)))

\* `needle in hay` for strings
StrIn(needle, hay) ==
    \E i \in 0..(Len(hay) - Len(needle)) : SubSeq(hay, i + 1, i + Len(needle)) = needle

\* str.startswith at a 1-based position
MatchAt(hay, i, needle) ==
    /\ i + Len(needle) - 1 <= Len(hay)
    /\ SubSeq(hay, i, i + Len(needle) - 1) = needle

\* s without the characters at its two ends that Space takes
Stripped(s, Space(_)) ==
    LET Inked == {i \in 1..Len(s) : ~Space(Char(s, i))}
    IN IF Inked = {} THEN ""
       ELSE SubSeq(s, Least(Inked), Greatest(Inked))

\* str.strip()
StrStrip(s) == Stripped(s, IsSpace)

\* str.replace(old, new), old non-empty: leftmost occurrences, not overlapping
RECURSIVE StrReplace(_, _, _)
StrReplace(s, old, new) ==
    IF s = "" THEN ""
    ELSE IF MatchAt(s, 1, old)
         THEN new \o StrReplace(SubSeq(s, Len(old) + 1, Len(s)), old, new)
         ELSE Head(s) \o StrReplace(Tail(s), old, new)

\* any(f(x) for x in seq)
AnyOf(seq, P(_)) == \E i \in 1..Len(seq) : P(seq[i])

\* dict.get(key, default) on a dict kept as its items
DictGet(items, key, default) ==
    IF \E i \in 1..Len(items) : items[i][1] = key
    THEN items[CHOOSE i \in 1..Len(items) : items[i][1] = key][2]
    ELSE default

-----------------------------------------------------------------------------
(* Numbers and their texts *)

RECURSIVE NatStr(_)
NatStr(n) == IF n < 10 THEN Char(Digits, n + 1) ELSE NatStr(n \div 10) \o Char(Digits, (n % 10) + 1)

\* repr() of a number: an int in decimal, a float with its one decimal, a
\* bool by its name
SignedRepr(t, a, sign) ==
    IF t = "int" THEN sign \o NatStr(a)
    ELSE sign \o NatStr(a \div 10) \o "." \o NatStr(a % 10)
NumRepr(v) ==
    IF v.t = "bool" THEN (IF v.b THEN "True" ELSE "False")
    ELSE SignedRepr(v.t, IF v.n < 0 THEN -v.n ELSE v.n, IF v.n < 0 THEN "-" ELSE "")

\* repr() of a string: between single quotes, or between double quotes
\* when the string holds a single quote and no double quote; a backslash,
\* the quote in use, newline, tab and carriage return are escaped, every
\* other control character is written \xhh with its code in hexadecimal
HexDigits == "0123456789abcdef"
HexByte(n) == Char(HexDigits, (n \div 16) + 1) \o Char(HexDigits, (n % 16) + 1)
ReprQuote(s) == IF StrIn("'", s) /\ ~StrIn("\"", s) THEN "\"" ELSE "'"
ReprChar(c, quote) ==
    CASE c = "\\" -> "\\\\"
      [] c = "\n" -> "\\n"
      [] c = "\t" -> "\\t"
      [] c = "\r" -> "\\r"
      [] c = quote -> "\\" \o c
      [] c \in ControlSet \ {"\n", "\t", "\r"} -> "\\x" \o HexByte(CodeOf(c))
      [] c = Delete -> "\\x7f"
      [] OTHER -> c
RECURSIVE ReprBody(_, _)
ReprBody(s, quote) ==
    IF Len(s) = 0 THEN ""
    ELSE IF Len(s) = 1 THEN ReprChar(s, quote)
    ELSE ReprBody(SubSeq(s, 1, Len(s) \div 2), quote)
         \o ReprBody(SubSeq(s, Len(s) \div 2 + 1, Len(s)), quote)
StrRepr(s) == ReprQuote(s) \o ReprBody(s, ReprQuote(s)) \o ReprQuote(s)

\* repr() of a value, as str() prints the items of a container
RECURSIVE PyRepr(_)
RECURSIVE ItemsRepr(_)
RECURSIVE ListRepr(_)
PyRepr(v) ==
    CASE v.t = "none" -> "None"
      [] v.t = "bool" -> (IF v.b THEN "True" ELSE "False")
      [] v.t \in {"int", "float"} -> NumRepr(v)
      [] v.t = "str" -> StrRepr(v.s)
      [] v.t = "list" -> "[" \o ListRepr(v.l) \o "]"
      [] v.t = "tuple" -> "(" \o ListRepr(v.l) \o (IF Len(v.l) = 1 THEN "," ELSE "") \o ")"
      [] v.t = "dict" -> "{" \o ItemsRepr(v.d) \o "}"
ItemsRepr(items) ==
    IF Len(items) = 0 THEN ""
    ELSE StrRepr(items[1][1]) \o ": " \o PyRepr(items[1][2])
         \o (IF Len(items) = 1 THEN "" ELSE ", " \o ItemsRepr(Tail(items)))
ListRepr(l) ==
    IF Len(l) = 0 THEN ""
    ELSE PyRepr(l[1]) \o (IF Len(l) = 1 THEN "" ELSE ", " \o ListRepr(Tail(l)))

\* str() of a value: a string is itself, any other value its repr()
Str(v) == IF v.t = "str" THEN v.s ELSE PyRepr(v)

\* the end of the maximal run of digits that starts at i (i - 1 if none)
\* the index before the first index from i on whose character fails Keeps
RunUntil(s, i, Keeps(_)) ==
    LET Stops == {j \in i..Len(s) : ~Keeps(Char(s, j))}
    IN IF Stops = {} THEN Len(s) ELSE Least(Stops) - 1

DigitRunEnd(s, i) == RunUntil(s, i, IsDigit)

SpaceRunEnd(s, i) == RunUntil(s, i, IsSpace)

\* the number a run of digits writes
RECURSIVE DigitsValue(_)
DigitsValue(s) ==
    IF s = "" THEN 0 ELSE 10 * DigitsValue(SubSeq(s, 1, Len(s) - 1)) + DigitValue(Char(s, Len(s)))

\* float(value): a number is itself; a string is parsed, surrounding white
\* space dropped, as [sign] then "inf", "infinity" or "nan" in either case, or a
\* decimal: digits [. [digits]] or . digits, then [e [sign] digits], single
\* underscores allowed between digits; any other string raises ValueError
\* (ok = FALSE).  The result keeps ten times the value between two integers,
\* its floor and its ceiling, and the digits as they are written: a value
\* next to a number of the model is compared with it after the rounding of
\* a double, any other value as it is written.

\* the numbers of the model stay below 10^8: a value of more digits is past
\* each of them, as inf is
MaxFloatDigits == 9

\* the least double is 4.9e-324: half of it, 2^-1075 = 2.47...e-324, and
\* what is below, is read as zero
HalfOfLeastDouble == "24703282292062327208"

\* an exponent of more digits than this is past every double
MaxExponentDigits == 5

\* a run of digits, single underscores between them
IsDigitPart(s) ==
    /\ s # ""
    /\ \A i \in 1..Len(s) :
          \/ IsDigit(Char(s, i))
          \/ /\ Char(s, i) = "_"
             /\ i > 1
             /\ i < Len(s)
             /\ IsDigit(Char(s, i - 1))
             /\ IsDigit(Char(s, i + 1))

\* the digits of a digit part
\* (the text is halved so that the recursion stays shallow)
RECURSIVE PlainDigits(_)
PlainDigits(s) ==
    IF Len(s) = 0 THEN ""
    ELSE IF Len(s) = 1 THEN (IF s = "_" THEN "" ELSE s)
    ELSE PlainDigits(SubSeq(s, 1, Len(s) \div 2)) \o PlainDigits(SubSeq(s, (Len(s) \div 2) + 1, Len(s)))

\* the zeros a run of digits starts with
LeadingZeros(s) == RunUntil(s, 1, LAMBDA c : c = "0")

\* digits a < digits b, read as fractions 0.a and 0.b: the first place where
\* they differ decides; when there is none, a is less if b goes on with a
\* digit that is not zero
FirstDifference(a, b, Places) == IF Places = {} THEN 0 ELSE Least(Places)
LessAt(a, b, k) ==
    IF k > 0 THEN DigitValue(Char(a, k)) < DigitValue(Char(b, k))
    ELSE \E i \in (Len(a) + 1)..Len(b) : Char(b, i) # "0"
FractionLess(a, b) ==
    LessAt(a, b, FirstDifference(a, b, {i \in 1..Len(a) : i <= Len(b) /\ Char(a, i) # Char(b, i)}))

\* digits and point: the value is written digits[1].digits[2..] * 10^point
NotANumber == [ok |-> FALSE, kind |-> "none", floor |-> 0, ceil |-> 0, digits |-> "", point |-> 0]
Finite(floor, ceil) ==
    [ok |-> TRUE, kind |-> "finite", floor |-> floor, ceil |-> ceil, digits |-> "", point |-> 0]
Infinite(neg) ==
    [ok |-> TRUE, kind |-> IF neg THEN "-inf" ELSE "inf", floor |-> 0, ceil |-> 0,
     digits |-> "", point |-> 0]
NaN == [ok |-> TRUE, kind |-> "nan", floor |-> 0, ceil |-> 0, digits |-> "", point |-> 0]

\* Arithmetic on natural numbers written in decimal, for numbers past the
\* integers of the checker: 2 * s + carry (carry 0 or 1), s doubled n
\* times, s + 1, s - 1 (s > 0), a < b (neither starts with a zero).  A
\* digit doubled carries when it is 5 or more, whatever is carried into it.
\* (the texts are halved so that the recursions stay shallow)
Carries(s, i) == i <= Len(s) /\ DigitValue(Char(s, i)) >= 5
TwiceDigit(s, i, carry) ==
    NatStr((2 * DigitValue(Char(s, i))
            + (IF i = Len(s) THEN carry ELSE IF Carries(s, i + 1) THEN 1 ELSE 0)) % 10)
RECURSIVE TwiceBetween(_, _, _, _)
TwiceBetween(s, i, j, carry) ==
    IF i > j THEN ""
    ELSE IF i = j THEN TwiceDigit(s, i, carry)
    ELSE TwiceBetween(s, i, (i + j) \div 2, carry) \o TwiceBetween(s, ((i + j) \div 2) + 1, j, carry)
Twice(s, carry) ==
    IF s = "" THEN (IF carry = 0 THEN "" ELSE NatStr(carry))
    ELSE (IF Carries(s, 1) THEN "1" ELSE "") \o TwiceBetween(s, 1, Len(s), carry)
RECURSIVE Doubled(_, _)
Doubled(s, n) ==
    IF n = 0 \/ s = "" THEN s
    ELSE IF n = 1 THEN Twice(s, 0)
    ELSE Doubled(Doubled(s, n \div 2), n - (n \div 2))
RECURSIVE Successor(_)
Successor(s) ==
    IF s = "" THEN "1"
    ELSE IF Char(s, Len(s)) = "9" THEN Successor(SubSeq(s, 1, Len(s) - 1)) \o "0"
    ELSE SubSeq(s, 1, Len(s) - 1) \o NatStr(DigitValue(Char(s, Len(s))) + 1)
RECURSIVE Predecessor(_)
Predecessor(s) ==
    IF Char(s, Len(s)) = "0" THEN Predecessor(SubSeq(s, 1, Len(s) - 1)) \o "9"
    ELSE SubSeq(s, 1, Len(s) - 1) \o NatStr(DigitValue(Char(s, Len(s))) - 1)
NumLess(a, b) == Len(a) < Len(b) \/ (Len(a) = Len(b) /\ FractionLess(a, b))

\* The double of n / 10, n > 0: m / 2^e with 2^52 <= m < 2^53, m the integer
\* nearest to n * 2^e / 10.  e is at least 1 for the numbers of the model,
\* so n * 2^e is even and never lies half-way between two integers.
LeastMantissa == "4503599627370496"
BinaryExponent(n) ==
    52 - Greatest({j \in (-4)..27 : IF j < 0 THEN n >= 10 \/ n * 2^(-j) >= 10
                                               ELSE n >= 10 * 2^j})
NearestTenth(scaled) ==
    IF DigitValue(Char(scaled, Len(scaled))) > 5
    THEN Successor(SubSeq(scaled, 1, Len(scaled) - 1))
    ELSE SubSeq(scaled, 1, Len(scaled) - 1)
DoubleMantissa(n, e) == NearestTenth(Doubled(NatStr(n), e))

\* The written values that round to the double m / 2^e lie between the two
\* points half-way to its neighbours, (4m - 2) / 2^(e+2) and
\* (4m + 2) / 2^(e+2); below the least mantissa the neighbour is half as
\* far, (4m - 1) / 2^(e+2).  A value on such a point goes to the even
\* mantissa.  x is the value times 2^(e+2) * 10^k, zeros is k zeros.
LowerHalfway(m) ==
    IF m = LeastMantissa THEN Twice(Twice(Predecessor(m), 1), 1)
    ELSE Twice(Twice(Predecessor(m), 1), 0)
UpperHalfway(m) == Twice(Twice(m, 1), 0)
IsEven(m) == DigitValue(Char(m, Len(m))) % 2 = 0
Within(x, low, high, even) ==
    /\ NumLess(low, x) \/ (even /\ low = x)
    /\ NumLess(x, high) \/ (even /\ high = x)
RoundsToMantissa(x, m, zeros) ==
    Within(x, LowerHalfway(m) \o zeros, UpperHalfway(m) \o zeros, IsEven(m))

\* the value digits[1].digits[2..] * 10^point rounds to the double of n / 10
RECURSIVE Zeros(_)
Zeros(k) ==
    IF k <= 0 THEN "" ELSE IF k = 1 THEN "0" ELSE Zeros(k \div 2) \o Zeros(k - (k \div 2))
RoundsAt(digits, p, n, e) ==
    RoundsToMantissa(Doubled(digits \o Zeros(p), e + 2), DoubleMantissa(n, e), Zeros(-p))
RoundsTo(digits, point, n) ==
    RoundsAt(digits, point - Len(digits) + 1, n, BinaryExponent(n))

\* float(x) == n / 10 for a value that is not written as n / 10: it lies
\* within a tenth of it, its first digit stands at the place of the first
\* digit of n / 10 or one place lower, and it rounds to the double
NearAt(x, n) == x.point >= Len(NatStr(n)) - 3 /\ RoundsTo(x.digits, x.point, n)
SameDouble(x, limit) ==
    /\ x.floor # x.ceil
    /\ limit \in {x.floor, x.ceil}
    /\ limit # 0
    /\ NearAt(x, IF limit < 0 THEN -limit ELSE limit)

\* float(x) > limit and float(x) < limit, the limit in tenths
FloatAbove(x, limit) ==
    x.ok /\ (x.kind = "inf" \/ (x.kind = "finite" /\ x.ceil > limit /\ ~SameDouble(x, limit)))
FloatBelow(x, limit) ==
    x.ok /\ (x.kind = "-inf" \/ (x.kind = "finite" /\ x.floor < limit /\ ~SameDouble(x, limit)))

\* the first n digits of sig as a number, zeros written where sig ends
RECURSIVE Padded(_, _)
Padded(sig, n) ==
    IF Len(sig) >= n THEN SubSeq(sig, 1, n) ELSE Padded(sig \o "0", n)

\* ten times a magnitude of `whole` and, if `more`, a fraction
Magnitude(neg, whole, more) ==
    IF neg THEN Finite(-(whole + (IF more THEN 1 ELSE 0)), -whole)
    ELSE Finite(whole, whole + (IF more THEN 1 ELSE 0))
AsWritten(x, sig, q) == [x EXCEPT !.digits = sig, !.point = q]
\* ten times sig[1].sig[2..] * 10^q, sig without leading zeros: its first
\* q + 2 digits, and a fraction when a later digit is not zero
Scaled(neg, sig, q) ==
    IF sig = "" THEN Finite(0, 0)
    ELSE IF q < -324 THEN Finite(0, 0)
    ELSE IF q = -324 /\ ~FractionLess(HalfOfLeastDouble, sig) THEN Finite(0, 0)
    ELSE IF q + 2 > MaxFloatDigits THEN Infinite(neg)
    ELSE AsWritten(Magnitude(neg,
                             IF q + 2 <= 0 THEN 0 ELSE DigitsValue(Padded(sig, q + 2)),
                             IF q + 2 <= 0 THEN TRUE
                             ELSE LeadingZeros(SubSeq(sig, q + 3, Len(sig))) < Len(sig) - (q + 2)),
                   sig, q)

\* a text without its sign
WithoutSign(s0) == IF s0 # "" /\ Char(s0, 1) \in {"-", "+"} THEN SubSeq(s0, 2, Len(s0)) ELSE s0

\* the exponent: [sign] digits, as a number; one of too many digits is cut
\* to a number past every double
ExponentOk(ex) == IsDigitPart(WithoutSign(ex))
ExponentSize(digits, zeros) ==
    IF Len(digits) - zeros > MaxExponentDigits THEN 99999
    ELSE DigitsValue(SubSeq(digits, zeros + 1, Len(digits)))
ExponentSigned(neg, size) == IF neg THEN -size ELSE size
ExponentDigits(neg, digits) ==
    ExponentSigned(neg, ExponentSize(digits, LeadingZeros(digits)))
ExponentValue(ex) ==
    IF ex = "" THEN 0 ELSE ExponentDigits(Char(ex, 1) = "-", PlainDigits(WithoutSign(ex)))

\* the mantissa: digits [. [digits]] or . digits
MantissaOk(whole, fraction, dotted) ==
    /\ whole # "" \/ fraction # ""
    /\ whole = "" => dotted
    /\ whole # "" => IsDigitPart(whole)
    /\ fraction # "" => IsDigitPart(fraction)

\* the digits of whole.fraction * 10^exponent, `zeros` of them leading
Significant(neg, digits, zeros, point) ==
    Scaled(neg, SubSeq(digits, zeros + 1, Len(digits)), point - zeros - 1)
Decimal(neg, whole, fraction, exponent) ==
    Significant(neg, whole \o fraction, LeadingZeros(whole \o fraction), Len(whole) + exponent)

\* the mantissa before and behind its point, and the exponent ex
Pointed(neg, whole, fraction, dotted, ex) ==
    IF MantissaOk(whole, fraction, dotted)
    THEN Decimal(neg, PlainDigits(whole), PlainDigits(fraction), ExponentValue(ex))
    ELSE NotANumber
Mantissa(neg, m, ex, dot) ==
    Pointed(neg,
            IF dot = 0 THEN m ELSE SubSeq(m, 1, dot - 1),
            IF dot = 0 THEN "" ELSE SubSeq(m, dot + 1, Len(m)),
            dot # 0, ex)

\* the first index of s with one of the characters, 0 if there is none
FirstOf(s, chars) ==
    IF \E i \in 1..Len(s) : Char(s, i) \in chars
    THEN Least({i \in 1..Len(s) : Char(s, i) \in chars})
    ELSE 0

\* a text without its sign: the mantissa up to the first e, the exponent
\* behind it, which must be there when there is an e
Parts(neg, m, ex, e) ==
    IF e # 0 /\ ~ExponentOk(ex) THEN NotANumber
    ELSE Mantissa(neg, m, ex, FirstOf(m, {"."}))
Exponential(neg, s, e) ==
    Parts(neg,
          IF e = 0 THEN s ELSE SubSeq(s, 1, e - 1),
          IF e = 0 THEN "" ELSE SubSeq(s, e + 1, Len(s)),
          e)
Spelled(neg, s, lowered) ==
    IF lowered \in {"inf", "infinity"} THEN Infinite(neg)
    ELSE IF lowered = "nan" THEN NaN
    ELSE Exponential(neg, s, FirstOf(s, {"e", "E"}))
Unsigned(neg, s) == Spelled(neg, s, StrLower(s))
ParseFloat(s0) == Unsigned(s0 # "" /\ Char(s0, 1) = "-", WithoutSign(s0))
ToFloat(v) ==
    IF IsNumber(v) THEN Finite(Tenths(v), Tenths(v))
    ELSE IF v.t # "str" THEN NotANumber
    ELSE ParseFloat(Stripped(v.s, IsFloatSpace))

\* the exception of a float(value) that fails: ValueError for a string,
\* TypeError for a list, a dict or a tuple
FloatError(v) == IF v.t = "str" THEN "ValueError" ELSE "TypeError"

-----------------------------------------------------------------------------
(* Nut detection: the block that meets_nutrient_filters and                *)
(* analyze_product_safety both carry                                       *)

nuts_keywords ==
    <<"nuts", "nut", "almond", "walnut", "peanut", "cashew", "pistachio", "hazelnut",
      "pecan", "macadamia", "brazil nut", "pine nut", "chestnut", "beechnut",
      "hickory nut", "may contain nuts", "may contain nut", "tree nuts">>

\* the alternation of the percentage pattern, in its order
pattern_words ==
    <<"nuts", "nut", "walnut", "almond", "peanut", "cashew", "pistachio", "hazelnut",
      "pecan", "macadamia">>

nutriments_phrases == <<"may contain nuts", "may contain nut", "contains nuts", "contains nut">>

\* any(nut in text for nut in nuts_keywords)
HasNutKeyword(text) == \E i \in 1..Len(nuts_keywords) : StrIn(nuts_keywords[i], text)

\* the characters the pattern's [^{}'"] classes refuse
Refused(c) == c \in {"{", "}", "'", "\""}

\* (\d+(?:\.\d+)?)\s*% tried at j: the digits, a fraction if one follows,
\* blanks, the sign.  NumberGroupEnd is where the group ends (j - 1 when no
\* digit stands at j: \d+ needs one), PercentAt where the "%" stands (0: no
\* match at j).
FractionEnd(s, e1) ==
    IF e1 + 2 <= Len(s) /\ Char(s, e1 + 1) = "." /\ IsDigit(Char(s, e1 + 2))
    THEN DigitRunEnd(s, e1 + 2) ELSE e1
NumberGroupEnd(s, j) ==
    IF j <= Len(s) /\ IsDigit(Char(s, j)) THEN FractionEnd(s, DigitRunEnd(s, j)) ELSE j - 1
PercentSign(s, j, e2, e3) ==
    IF e2 >= j /\ e3 + 1 <= Len(s) /\ Char(s, e3 + 1) = "%" THEN e3 + 1 ELSE 0
PercentAfter(s, j, e2) == PercentSign(s, j, e2, SpaceRunEnd(s, e2 + 1))
PercentAt(s, j) == PercentAfter(s, j, NumberGroupEnd(s, j))

\* the last index of the run of accepted characters that holds p (p - 1 if
\* the character at p is refused)
Accepted(c) == ~Refused(c)
RunEnd(s, p) == RunUntil(s, p, Accepted)

\* One match of the pattern tried at p.  The first class is greedy, so the
\* word is the last one of the run after which a percentage follows; the
\* alternation is tried in its order; the second class is lazy, so the group
\* is the first percentage after the word.  [found, group, stop]: whether it
\* matches, the text of its group, the index of its "%" (the end of the run
\* without a match).
Percentages(s, p, last) == {j \in p..last : PercentAt(s, j) > 0}
WordAt(s, k, w, Pcts) ==
    /\ MatchAt(s, k, pattern_words[w])
    /\ \E j \in Pcts : j >= k + Len(pattern_words[w])
WordStarts(s, p, last, Pcts) ==
    {k \in p..last : \E w \in 1..Len(pattern_words) : WordAt(s, k, w, Pcts)}
FirstWord(s, k, Pcts) == Least({w \in 1..Len(pattern_words) : WordAt(s, k, w, Pcts)})
MatchOf(s, j) ==
    [found |-> TRUE, group |-> SubSeq(s, j, NumberGroupEnd(s, j)), stop |-> PercentAt(s, j)]
MatchAfter(s, from, Pcts) == MatchOf(s, Least({x \in Pcts : x >= from}))
MatchWord(s, k, Pcts) == MatchAfter(s, k + Len(pattern_words[FirstWord(s, k, Pcts)]), Pcts)
MatchWithin(s, last, Ks, Pcts) ==
    IF Ks = {} THEN [found |-> FALSE, group |-> "", stop |-> last]
    ELSE MatchWord(s, Greatest(Ks), Pcts)
MatchIn(s, p, last, Pcts) == MatchWithin(s, last, WordStarts(s, p, last, Pcts), Pcts)
MatchFrom(s, p) == MatchIn(s, p, RunEnd(s, p), Percentages(s, p, RunEnd(s, p)))

\* re.findall(pattern, s): the groups of the successive matches, left to right
RECURSIVE FindAllPercentages(_, _)
AfterMatch(s, m) ==
    IF m.found THEN <<m.group>> \o FindAllPercentages(s, m.stop + 1)
    ELSE FindAllPercentages(s, m.stop + 2)
FindAllPercentages(s, p) == IF p > Len(s) THEN <<>> ELSE AfterMatch(s, MatchFrom(s, p))

\* float(percentage_str) > 0 for a group digits[.digits]
PositivePercentage(g) == FloatAbove(ParseFloat(g), 0)

\* has_nut_allergen
HasNutAllergen(allergens) == \E i \in 1..Len(allergens) : StrIn("nut", StrLower(allergens[i].s))

\* has_nut_in_nutriments: nutriments_str is str(nutriments).lower(), matches
\* what re.findall returns on it
NutrimentsEvidence(nutriments_str, matches) ==
    /\ HasNutKeyword(nutriments_str)
    /\ IF Len(matches) > 0
       THEN \E i \in 1..Len(matches) : PositivePercentage(matches[i])
       ELSE \E i \in 1..Len(nutriments_phrases) : StrIn(nutriments_phrases[i], nutriments_str)
NutrimentsText(nutriments_str) ==
    NutrimentsEvidence(nutriments_str, FindAllPercentages(nutriments_str, 1))
HasNutInNutriments(product) ==
    NutrimentsText(StrLower(Str(Get(product.nutriments, PyDict(<<>>)))))

\* `product.get('product_name', '').lower()` and the four like it go through:
\* a text of the record that is no string raises AttributeError
TextsAreStrings(product) ==
    \A f \in {product.product_name, product.generic_name, product.categories,
               product.labels, product.traces} : Get(f, PyStr("")).t = "str"

\* has_nut_in_additional_fields: five texts, lower-cased, and three tag lists
HasNutInAdditionalFields(product) ==
    \/ \E f \in {product.product_name, product.generic_name, product.categories,
                 product.labels, product.traces} :
          HasNutKeyword(StrLower(Get(f, PyStr("")).s))
    \/ \E f \in {product.ingredients_analysis_tags, product.categories_tags, product.labels_tags} :
          LET field == Get(f, PyList(<<>>)).l
          IN \E i \in 1..Len(field) : HasNutKeyword(StrLower(Str(field[i])))

\* the disjunction both copies end with
ContainsNuts(product, allergens, ingredients_text) ==
    \/ HasNutAllergen(allergens)
    \/ HasNutKeyword(ingredients_text)
    \/ HasNutInNutriments(product)
    \/ HasNutInAdditionalFields(product)

-----------------------------------------------------------------------------
(* search_food_product: the filters and the effective limits *)

\* the implicit bounds of the low_* shorthands, in tenths
LowFatLimit == 30
LowFiberLimit == 30
LowSugarLimit == 50
LowSaltLimit == 3

\* filters = {...}: params.get(key, False) for the flags, params.get(key) for the bounds
ExtractFilters(params) ==
    [low_fat |-> Get(params.low_fat, PyBool(FALSE)),
     low_fiber |-> Get(params.low_fiber, PyBool(FALSE)),
     low_sugar |-> Get(params.low_sugar, PyBool(FALSE)),
     low_salt |-> Get(params.low_salt, PyBool(FALSE)),
     no_nuts |-> Get(params.no_nuts, PyBool(FALSE)),
     max_calories |-> Get(params.max_calories, PyNone),
     min_calories |-> Get(params.min_calories, PyNone),
     max_fat |-> Get(params.max_fat, PyNone),
     max_fiber |-> Get(params.max_fiber, PyNone),
     min_fiber |-> Get(params.min_fiber, PyNone),
     max_sugar |-> Get(params.max_sugar, PyNone),
     max_salt |-> Get(params.max_salt, PyNone),
     min_protein |-> Get(params.min_protein, PyNone),
     max_protein |-> Get(params.max_protein, PyNone)]

\* a variant of EffectiveLimit: the shorthand wins over the explicit maximum
ShorthandOverridesExplicit(max, low, implicit) ==
    IF Truthy(low) THEN PyFloat(implicit) ELSE max

\* max_X if max_X is not None else (implicit if low_X else None)
EffectiveLimit(max, low, implicit) ==
    IF max # PyNone THEN max ELSE IF Truthy(low) THEN PyFloat(implicit) ELSE PyNone

\* fat_limit ... max_protein_limit
ComputeLimits(f) ==
    [fat_limit |-> EffectiveLimit(f.max_fat, f.low_fat, LowFatLimit),
     fiber_limit |-> EffectiveLimit(f.max_fiber, f.low_fiber, LowFiberLimit),
     sugar_limit |-> EffectiveLimit(f.max_sugar, f.low_sugar, LowSugarLimit),
     salt_limit |-> EffectiveLimit(f.max_salt, f.low_salt, LowSaltLimit),
     calorie_limit |-> f.max_calories,
     min_calorie_limit |-> f.min_calories,
     min_fiber_limit |-> f.min_fiber,
     min_protein_limit |-> f.min_protein,
     max_protein_limit |-> f.max_protein]

\* has_nutrient_filters
HasNutrientFilters(f, lim) ==
    \/ Truthy(f.low_fat) \/ Truthy(f.low_fiber) \/ Truthy(f.low_sugar) \/ Truthy(f.low_salt)
    \/ Truthy(f.no_nuts)
    \/ lim.calorie_limit # PyNone \/ lim.min_calorie_limit # PyNone
    \/ lim.fat_limit # PyNone \/ lim.fiber_limit # PyNone \/ lim.min_fiber_limit # PyNone
    \/ lim.sugar_limit # PyNone \/ lim.salt_limit # PyNone
    \/ lim.min_protein_limit # PyNone \/ lim.max_protein_limit # PyNone

-----------------------------------------------------------------------------
(* meets_nutrient_filters *)

\* nutriments.get(key1, nutriments.get(key2, None))
NutrimentValue(nutriments, key1, key2) == DictGet(nutriments, key1, DictGet(nutriments, key2, PyNone))

Pass == [r |-> "pass"]
Reject(name, bound, value, limit) ==
    [r |-> "reject", name |-> name, bound |-> bound, value |-> value, limit |-> limit]
Raise(error) == [r |-> "raise", error |-> error]

\* one entry of limits_to_check: float(value) > limit
MaxVerdict(value, limit, name, converted) ==
    IF ~converted.ok THEN Raise(FloatError(value))
    ELSE IF FloatAbove(converted, Tenths(limit)) THEN Reject(name, "limit", value, limit)
    ELSE Pass
MaxValue(value, limit, name) ==
    IF value = PyNone THEN Pass ELSE MaxVerdict(value, limit, name, ToFloat(value))
MaxCheck(nutriments, limit, key1, key2, name) ==
    IF limit = PyNone THEN Pass ELSE MaxValue(NutrimentValue(nutriments, key1, key2), limit, name)

\* one minimum: float(value) < limit
MinVerdict(value, limit, name, converted) ==
    IF ~converted.ok THEN Raise(FloatError(value))
    ELSE IF FloatBelow(converted, Tenths(limit)) THEN Reject(name, "minimum", value, limit)
    ELSE Pass
MinValue(value, limit, name) ==
    IF value = PyNone THEN Pass ELSE MinVerdict(value, limit, name, ToFloat(value))
MinCheck(nutriments, limit, key1, key2, name) ==
    IF limit = PyNone THEN Pass ELSE MinValue(NutrimentValue(nutriments, key1, key2), limit, name)

\* the protein block: the value is converted before either bound is looked at
ProteinVerdict(protein_value, lim, protein_float) ==
    IF ~protein_float.ok THEN Raise(FloatError(protein_value))
    ELSE IF lim.min_protein_limit # PyNone /\ FloatBelow(protein_float, Tenths(lim.min_protein_limit))
         THEN Reject("Protein", "minimum", protein_value, lim.min_protein_limit)
    ELSE IF lim.max_protein_limit # PyNone /\ FloatAbove(protein_float, Tenths(lim.max_protein_limit))
         THEN Reject("Protein", "maximum", protein_value, lim.max_protein_limit)
    ELSE Pass
ProteinValue(protein_value, lim) ==
    IF protein_value = PyNone THEN Pass
    ELSE ProteinVerdict(protein_value, lim, ToFloat(protein_value))
ProteinCheck(nutriments, lim) ==
    ProteinValue(NutrimentValue(nutriments, "proteins_100g", "proteins"), lim)

\* a variant of NutsCheck: the filter looks at the allergen tags and the
\* ingredients text only
NutsCheckByTagsAndText(product, f) ==
    IF Get(product.ingredients_text, PyStr("")).t # "str" THEN Raise("AttributeError")
    ELSE IF Truthy(f.no_nuts)
       /\ (\/ HasNutAllergen(Get(product.allergens_tags, PyList(<<>>)).l)
           \/ HasNutKeyword(StrLower(Get(product.ingredients_text, PyStr("")).s)))
    THEN [r |-> "reject", name |-> "Contains nuts", bound |-> "nuts", value |-> PyNone,
          limit |-> PyNone]
    ELSE Pass

\* the fields the function reads first, then the nuts block: `.lower()` of
\* an ingredients_text that is no string raises AttributeError, whatever the
\* filters are, `.lower()` of another text that is no string when the nuts
\* are looked for
NutsCheck(product, f) ==
    IF Get(product.ingredients_text, PyStr("")).t # "str" THEN Raise("AttributeError")
    ELSE IF Truthy(f.no_nuts) /\ ~TextsAreStrings(product) THEN Raise("AttributeError")
    ELSE IF Truthy(f.no_nuts)
       /\ ContainsNuts(product, Get(product.allergens_tags, PyList(<<>>)).l,
                       StrLower(Get(product.ingredients_text, PyStr("")).s))
    THEN [r |-> "reject", name |-> "Contains nuts", bound |-> "nuts", value |-> PyNone,
          limit |-> PyNone]
    ELSE Pass

\* limits_to_check
limits_to_check(lim) ==
    <<<<lim.calorie_limit, "energy-kcal_100g", "energy-kcal", "Calories">>,
      <<lim.fat_limit, "fat_100g", "fat", "Fat">>,
      <<lim.fiber_limit, "fiber_100g", "fiber", "Fiber">>,
      <<lim.sugar_limit, "sugars_100g", "sugars", "Sugar">>,
      <<lim.salt_limit, "salt_100g", "salt", "Salt">>>>

LimitCheck(nutriments, entry) == MaxCheck(nutriments, entry[1], entry[2], entry[3], entry[4])

\* the checks in the order of the code: the nuts block, the five entries of
\* limits_to_check, the protein block, the two minima
NutrimentCheck(nutriments, lim, i) ==
    CASE i \in 2..6 -> LimitCheck(nutriments, limits_to_check(lim)[i - 1])
      [] i = 7 -> ProteinCheck(nutriments, lim)
      [] i = 8 -> MinCheck(nutriments, lim.min_calorie_limit, "energy-kcal_100g", "energy-kcal", "Calories")
      [] i = 9 -> MinCheck(nutriments, lim.min_fiber_limit, "fiber_100g", "fiber", "Fiber")
\* the limit a check looks at before it reads nutriments; the protein block
\* reads them whatever the limits are
LimitRead(lim, i) ==
    CASE i \in 2..6 -> limits_to_check(lim)[i - 1][1]
      [] i = 7 -> PyBool(TRUE)
      [] i = 8 -> lim.min_calorie_limit
      [] i = 9 -> lim.min_fiber_limit

\* `nutriments.get(...)` on a value of the record that is no dict (None for a
\* null field) raises AttributeError in the first check that reads it
FilterCheck(product, f, lim, i) ==
    IF i = 1 THEN NutsCheck(product, f)
    ELSE IF Get(product.nutriments, PyDict(<<>>)).t # "dict"
         THEN (IF LimitRead(lim, i) = PyNone THEN Pass ELSE Raise("AttributeError"))
    ELSE NutrimentCheck(Get(product.nutriments, PyDict(<<>>)).d, lim, i)

NumFilterChecks == 9

\* the first check that does not pass decides; (True, None) if all pass
RECURSIVE FirstFailure(_, _, _, _)
Decide(product, f, lim, i, c) ==
    IF c.r = "pass" THEN FirstFailure(product, f, lim, i + 1) ELSE c
FirstFailure(product, f, lim, i) ==
    IF i > NumFilterChecks THEN Pass
    ELSE Decide(product, f, lim, i, FilterCheck(product, f, lim, i))

meets_nutrient_filters(product, f, lim) == FirstFailure(product, f, lim, 1)

-----------------------------------------------------------------------------
(* analyze_product_safety *)

UpperChar(c) == IF c \in LowerLetters THEN UpperOf[c] ELSE c

\* str.upper()
RECURSIVE StrUpper(_)
StrUpper(s) ==
    IF Len(s) = 0 THEN ""
    ELSE IF Len(s) = 1 THEN UpperChar(s)
    ELSE StrUpper(SubSeq(s, 1, Len(s) \div 2)) \o StrUpper(SubSeq(s, Len(s) \div 2 + 1, Len(s)))

\* The running state of one call: is_safe, warnings, recommendations, and
\* the exception that has left the function ("no": none).  The warning texts
\* are those of the code without their leading sign.
NewAnalysis == [is_safe |-> TRUE, warnings |-> <<>>, recommendations |-> <<>>, raised |-> "no"]

\* warnings.append(text), and is_safe = False when `fatal`
Warn(acc, text, fatal) ==
    [acc EXCEPT !.warnings = Append(@, text), !.is_safe = IF fatal THEN FALSE ELSE @]

\* ingredients_text = product_data.get("ingredients_text", "").lower()
IngredientsText(product) == StrLower(Get(product.ingredients_text, PyStr("")).s)

nut_allergy_names == {"nuts", "nut", "tree nuts"}

\* a variant of AllergyMatches: of the allergen tags only the first is read
FirstTagMatches(product, allergy) ==
    LET allergy_lower == StrLower(allergy.s)
        allergens == Get(product.allergens_tags, PyList(<<>>)).l
    IN IF allergy_lower \in nut_allergy_names
       THEN ContainsNuts(product, allergens, IngredientsText(product))
       ELSE \/ Len(allergens) > 0 /\ StrIn(allergy_lower, StrLower(allergens[1].s))
            \/ StrIn(allergy_lower, IngredientsText(product))

\* the condition of the body of `for allergy in allergies`
AllergyMatches(product, allergy) ==
    LET allergy_lower == StrLower(allergy.s)
        allergens == Get(product.allergens_tags, PyList(<<>>)).l
    IN IF allergy_lower \in nut_allergy_names
       THEN ContainsNuts(product, allergens, IngredientsText(product))
       ELSE \/ \E i \in 1..Len(allergens) : StrIn(allergy_lower, StrLower(allergens[i].s))
            \/ StrIn(allergy_lower, IngredientsText(product))

AllergyWarning(allergy) == "ALLERGY WARNING: Contains " \o allergy.s

\* a variant of AllergyIsFatal: an allergy is fatal in strict mode only, as
\* an intolerance is
FatalOnlyWhenStrict(strict_mode) == strict_mode

\* is_safe = False after an allergy warning, whatever strict_mode is
AllergyIsFatal(strict_mode) == TRUE

RECURSIVE AllergyLoop(_, _, _, _, _)
AllergyLoop(acc, allergies, i, product, strict_mode) ==
    IF i > Len(allergies) THEN acc
    ELSE AllergyLoop(
            IF AllergyMatches(product, allergies[i])
            THEN Warn(acc, AllergyWarning(allergies[i]), AllergyIsFatal(strict_mode))
            ELSE acc,
            allergies, i + 1, product, strict_mode)

\* `allergy.lower()` and `intolerance.lower()` go through for every item
AllStrings(items) == \A i \in 1..Len(items) : items[i].t = "str"

\* one of the allergies is an allergy to nuts: the nuts are looked for
NutsLookedFor(allergies) ==
    \E i \in 1..Len(allergies) : StrLower(allergies[i].s) \in nut_allergy_names

CheckAllergies(acc, profile, product, strict_mode) ==
    IF ~AllStrings(Get(profile.allergies, PyList(<<>>)).l)
    THEN [acc EXCEPT !.raised = "AttributeError"]
    ELSE IF NutsLookedFor(Get(profile.allergies, PyList(<<>>)).l) /\ ~TextsAreStrings(product)
    THEN [acc EXCEPT !.raised = "AttributeError"]
    ELSE AllergyLoop(acc, Get(profile.allergies, PyList(<<>>)).l, 1, product, strict_mode)

IntoleranceMatches(product, intolerance) ==
    StrIn(StrLower(intolerance.s), IngredientsText(product))

IntoleranceWarning(intolerance) == "INTOLERANCE WARNING: May contain " \o intolerance.s

\* a variant of IntoleranceIsFatal: an intolerance is fatal in both modes, as
\* an allergy is
FatalInBothModes(strict_mode) == TRUE

\* `if strict_mode: is_safe = False` after an intolerance warning
IntoleranceIsFatal(strict_mode) == strict_mode

RECURSIVE IntoleranceLoop(_, _, _, _, _)
IntoleranceLoop(acc, intolerances, i, product, strict_mode) ==
    IF i > Len(intolerances) THEN acc
    ELSE IntoleranceLoop(
            IF IntoleranceMatches(product, intolerances[i])
            THEN Warn(acc, IntoleranceWarning(intolerances[i]), IntoleranceIsFatal(strict_mode))
            ELSE acc,
            intolerances, i + 1, product, strict_mode)

CheckIntolerances(acc, profile, product, strict_mode) ==
    IF AllStrings(Get(profile.intolerances, PyList(<<>>)).l)
    THEN IntoleranceLoop(acc, Get(profile.intolerances, PyList(<<>>)).l, 1, product, strict_mode)
    ELSE [acc EXCEPT !.raised = "AttributeError"]

\* nutriments.get(nutrient, nutriments.get(nutrient.replace("_100g", ""), 0))
LimitValue(nutriments, nutrient) ==
    DictGet(nutriments, nutrient, DictGet(nutriments, StrReplace(nutrient, "_100g", ""), PyInt(0)))

\* isinstance(value, (int, float)) and value > limit
LimitViolated(value, limit) == IsNumber(value) /\ Tenths(value) > Tenths(limit)

HighWarning(nutrient, value, limit) ==
    "HIGH " \o StrUpper(StrReplace(nutrient, "_100g", "")) \o ": " \o NumRepr(value)
        \o "g (limit: " \o NumRepr(limit) \o "g)"

\* `if strict_mode: is_safe = False` after a HIGH warning
LimitIsFatal(strict_mode) == strict_mode

\* the body of `for nutrient, limit in nutrient_limits.items()`; comparing a
\* number with a limit that is no number raises TypeError
RECURSIVE LimitLoop(_, _, _, _, _)
LimitLoop(acc, items, i, nutriments, strict_mode) ==
    IF i > Len(items) \/ acc.raised # "no" THEN acc
    ELSE LET nutrient == items[i][1]
             limit == items[i][2]
             value == LimitValue(nutriments, nutrient)
         IN LimitLoop(
               IF IsNumber(value) /\ ~IsNumber(limit) THEN [acc EXCEPT !.raised = "TypeError"]
               ELSE IF LimitViolated(value, limit)
                    THEN Warn(acc, HighWarning(nutrient, value, limit), LimitIsFatal(strict_mode))
                    ELSE acc,
               items, i + 1, nutriments, strict_mode)

\* the loop reads nutriments once for every limit: with a limit to check,
\* nutriments that are no dict raise AttributeError
CheckNutrientLimits(acc, profile, product, strict_mode) ==
    LET nutrient_limits == Get(profile.nutrient_limits, PyDict(<<>>))
        nutriments == Get(product.nutriments, PyDict(<<>>))
    IN IF nutrient_limits.t # "dict" \/ Len(nutrient_limits.d) = 0 THEN acc
       ELSE IF nutriments.t # "dict" THEN [acc EXCEPT !.raised = "AttributeError"]
       ELSE LimitLoop(acc, nutrient_limits.d, 1, nutriments.d, strict_mode)

non_vegan_indicators ==
    <<"milk", "egg", "meat", "fish", "honey", "gelatin", "whey", "casein", "dairy", "cheese",
      "butter", "cream", "lactose", "chicken", "beef", "pork", "bacon", "lard">>

non_vegetarian_indicators ==
    <<"meat", "fish", "chicken", "beef", "pork", "bacon", "lard", "gelatin", "anchovies",
      "tuna", "salmon", "cod">>

\* the text shorter than this is "insufficient ingredient information"
MinIngredientsLength == 20

\* check_diet_status(diet_type, non_diet_indicators) gives [ok, warnings]:
\* the value it returns and the warnings it appends.

\* a variant of IsExplicitlyLabeled: the tag is compared as it is written
LabeledAsWritten(product, diet_type) ==
    LET diet_labels == Get(product.labels_tags, PyList(<<>>)).l
    IN \E i \in 1..Len(diet_labels) : StrIn(diet_type, diet_labels[i].s)

\* is_explicitly_labeled
IsExplicitlyLabeled(product, diet_type) ==
    LET diet_labels == Get(product.labels_tags, PyList(<<>>)).l
    IN \E i \in 1..Len(diet_labels) : StrIn(diet_type, StrLower(diet_labels[i].s))

\* f"{diet_type} status unknown" in ingredients_text.lower()
DisclosedUnknown(diet_type, lowered) == StrIn(diet_type \o " status unknown", lowered)

Compliant == [ok |-> TRUE, warnings |-> <<>>]

UnknownDisclosed(diet_type) ==
    [ok |-> FALSE,
     warnings |-> <<StrUpper(diet_type) \o " STATUS UNKNOWN: Product explicitly states unknown "
                    \o diet_type \o " status">>]

NotDiet(diet_type, indicator) ==
    [ok |-> FALSE, warnings |-> <<"NOT " \o StrUpper(diet_type) \o ": Contains " \o indicator>>]

\* a variant of InsufficientIsCompliant: too little text never fails a product
CompliantInBothModes(strict_mode) == TRUE

\* `return False if strict_mode else True`
InsufficientIsCompliant(strict_mode) == ~strict_mode

Insufficient(diet_type, strict_mode) ==
    [ok |-> InsufficientIsCompliant(strict_mode),
     warnings |-> <<StrUpper(diet_type) \o " STATUS UNKNOWN: Insufficient ingredient information"
                    \o (IF strict_mode THEN " - FILTERED OUT" ELSE "")>>]

\* the indicators the text holds, by their place in the list
FoundIndicators(non_diet_indicators, lowered) ==
    {i \in 1..Len(non_diet_indicators) : StrIn(non_diet_indicators[i], lowered)}

\* a variant of Inferred: of the indicators the text holds, the last of the
\* list is the one reported
LastIndicatorInferred(ingredients_text, diet_type, non_diet_indicators, strict_mode, Found) ==
    IF Found # {} THEN NotDiet(diet_type, non_diet_indicators[Greatest(Found)])
    ELSE IF ingredients_text = "" \/ Len(StrStrip(ingredients_text)) < MinIngredientsLength
         THEN Insufficient(diet_type, strict_mode)
    ELSE Compliant

\* the else branch: the first indicator found, else the insufficiency test
Inferred(ingredients_text, diet_type, non_diet_indicators, strict_mode, Found) ==
    IF Found # {} THEN NotDiet(diet_type, non_diet_indicators[Least(Found)])
    ELSE IF ingredients_text = "" \/ Len(StrStrip(ingredients_text)) < MinIngredientsLength
         THEN Insufficient(diet_type, strict_mode)
    ELSE Compliant

\* a variant of DietStatus: the label is looked at before the disclosure
LabelBeforeDisclosure(ingredients_text, lowered, labeled, diet_type, non_diet_indicators, strict_mode) ==
    IF labeled THEN Compliant
    ELSE IF DisclosedUnknown(diet_type, lowered) THEN UnknownDisclosed(diet_type)
    ELSE Inferred(ingredients_text, diet_type, non_diet_indicators, strict_mode,
                  FoundIndicators(non_diet_indicators, lowered))

\* the if / elif / else of the function
DietStatus(ingredients_text, lowered, labeled, diet_type, non_diet_indicators, strict_mode) ==
    IF DisclosedUnknown(diet_type, lowered) THEN UnknownDisclosed(diet_type)
    ELSE IF labeled THEN Compliant
    ELSE Inferred(ingredients_text, diet_type, non_diet_indicators, strict_mode,
                  FoundIndicators(non_diet_indicators, lowered))

check_diet_status(product, diet_type, non_diet_indicators, strict_mode) ==
    DietStatus(IngredientsText(product), StrLower(IngredientsText(product)),
               IsExplicitlyLabeled(product, diet_type), diet_type, non_diet_indicators,
               strict_mode)

\* dietary_prefs.get(name, False), as a truth value
Preference(profile, name) ==
    Truthy(DictGet(Get(profile.dietary_preferences, PyDict(<<>>)).d, name, PyBool(FALSE)))

\* a variant of DietOutcome: the warnings are kept and the verdict is not touched
AdvisoryDietOutcome(acc, st) == [acc EXCEPT !.warnings = @ \o st.warnings]

\* a variant of DietOutcome: `is_safe = check_diet_status(...)`
AssignedDietOutcome(acc, st) == [acc EXCEPT !.warnings = @ \o st.warnings, !.is_safe = st.ok]

\* `if not check_diet_status(...): is_safe = False`
DietOutcome(acc, st) ==
    [acc EXCEPT !.warnings = @ \o st.warnings, !.is_safe = IF st.ok THEN @ ELSE FALSE]

\* `if dietary_prefs.get(diet, False): if not check_diet_status(...): is_safe = False`
CheckDiet(acc, profile, product, strict_mode, diet_type, non_diet_indicators) ==
    IF ~Preference(profile, diet_type) THEN acc
    ELSE DietOutcome(acc, check_diet_status(product, diet_type, non_diet_indicators, strict_mode))

CheckVegan(acc, profile, product, strict_mode) ==
    CheckDiet(acc, profile, product, strict_mode, "vegan", non_vegan_indicators)

CheckVegetarian(acc, profile, product, strict_mode) ==
    CheckDiet(acc, profile, product, strict_mode, "vegetarian", non_vegetarian_indicators)

AdditiveMatches(product, additive) ==
    LET additives == Get(product.additives_tags, PyList(<<>>)).l
    IN \E i \in 1..Len(additives) : StrIn(StrLower(additive.s), StrLower(additives[i].s))

AdditiveWarning(additive) == "CONTAINS AVOIDED ADDITIVE: " \o additive.s

\* a variant of AdditiveIsFatal: an avoided additive is reported and never
\* fails a product
AdditiveNeverFatal(strict_mode) == FALSE

\* `if strict_mode: is_safe = False` after an additive warning
AdditiveIsFatal(strict_mode) == strict_mode

RECURSIVE AdditiveLoop(_, _, _, _, _)
AdditiveLoop(acc, avoid_additives, i, product, strict_mode) ==
    IF i > Len(avoid_additives) THEN acc
    ELSE AdditiveLoop(
            IF AdditiveMatches(product, avoid_additives[i])
            THEN Warn(acc, AdditiveWarning(avoid_additives[i]), AdditiveIsFatal(strict_mode))
            ELSE acc,
            avoid_additives, i + 1, product, strict_mode)

CheckAdditives(acc, profile, product, strict_mode) ==
    AdditiveLoop(acc, Get(profile.avoid_additives, PyList(<<>>)).l, 1, product, strict_mode)

\* the thresholds of the two recommendations, in tenths
SugarAdvice == 50
SaltAdvice == 15

\* `dietary_prefs.get(pref, False) and nutriments.get(key, 0) > threshold`:
\* "yes", "no", "TypeError" when the value is no number, or
\* "AttributeError" when nutriments is no dict
RecommendValue(value, threshold) ==
    IF ~IsNumber(value) THEN "TypeError"
    ELSE IF Tenths(value) > threshold THEN "yes" ELSE "no"
Recommend(profile, product, pref, key, threshold) ==
    IF ~Preference(profile, pref) THEN "no"
    ELSE IF Get(product.nutriments, PyDict(<<>>)).t # "dict" THEN "AttributeError"
    ELSE RecommendValue(DictGet(Get(product.nutriments, PyDict(<<>>)).d, key, PyInt(0)), threshold)

Recommendations(acc, profile, product, strict_mode) ==
    LET sugar == Recommend(profile, product, "low_sugar", "sugars_100g", SugarAdvice)
        salt == Recommend(profile, product, "low_salt", "salt_100g", SaltAdvice)
        a1 == IF sugar = "yes"
              THEN [acc EXCEPT !.recommendations = Append(@, "Consider a low-sugar alternative")]
              ELSE acc
    IN IF sugar \notin {"yes", "no"} THEN [acc EXCEPT !.raised = sugar]
       ELSE IF salt \notin {"yes", "no"} THEN [a1 EXCEPT !.raised = salt]
       ELSE IF salt = "yes"
            THEN [a1 EXCEPT !.recommendations = Append(@, "Consider a low-salt alternative")]
            ELSE a1

\* the checks of the function in their order; an exception ends the call
AnalysisStep(acc, profile, product, strict_mode, step) ==
    IF acc.raised # "no" THEN acc
    ELSE CASE step = 1 -> CheckAllergies(acc, profile, product, strict_mode)
           [] step = 2 -> CheckIntolerances(acc, profile, product, strict_mode)
           [] step = 3 -> CheckNutrientLimits(acc, profile, product, strict_mode)
           [] step = 4 -> CheckVegan(acc, profile, product, strict_mode)
           [] step = 5 -> CheckVegetarian(acc, profile, product, strict_mode)
           [] step = 6 -> CheckAdditives(acc, profile, product, strict_mode)
           [] step = 7 -> Recommendations(acc, profile, product, strict_mode)

NumAnalysisSteps == 7

RECURSIVE AnalysisFrom(_, _, _, _, _)
AnalysisFrom(acc, profile, product, strict_mode, step) ==
    IF step > NumAnalysisSteps THEN acc
    ELSE AnalysisFrom(AnalysisStep(acc, profile, product, strict_mode, step),
                      profile, product, strict_mode, step + 1)

\* the function past its first test: `product_data.get("ingredients_text",
\* "").lower()` raises AttributeError on a value that is no string (None
\* for a null field of the record), before any check is made
AnalysisWithProfile(profile, product, strict_mode) ==
    IF Get(product.ingredients_text, PyStr("")).t # "str"
    THEN [NewAnalysis EXCEPT !.raised = "AttributeError"]
    ELSE AnalysisFrom(NewAnalysis, profile, product, strict_mode, 1)

\* a variant of analyze_product_safety: without a profile nothing is safe
FailClosedWithoutProfile(profile, product, strict_mode) ==
    IF profile = PyNone THEN [NewAnalysis EXCEPT !.is_safe = FALSE]
    ELSE AnalysisWithProfile(profile.d, product, strict_mode)

\* analyze_product_safety(product_data, strict_mode) with USER_PROFILE = profile
analyze_product_safety(profile, product, strict_mode) ==
    IF profile = PyNone THEN NewAnalysis
    ELSE AnalysisWithProfile(profile.d, product, strict_mode)

\* `''.join(c for c in product_name if c.isprintable() and c.isascii()) if
\* product_name else 'Unknown Product'`, the cleaning of a text a product is
\* listed with: a text that is true and no string raises, a number because
\* it cannot be iterated, a list because an item of it that is no string
\* has no isprintable; the keys of a dict are strings
NameError(name) ==
    CASE name.t \in {"int", "float", "bool"} -> IF Truthy(name) THEN "TypeError" ELSE "no"
      [] name.t \in {"list", "tuple"} ->
            IF \E i \in 1..Len(name.l) : name.l[i].t # "str" THEN "AttributeError" ELSE "no"
      [] OTHER -> "no"

\* the name is cleaned, then the brand
BrandError(error, brand) == IF error # "no" THEN error ELSE NameError(brand)
CleaningError(product) ==
    BrandError(NameError(Get(product.product_name, PyStr("Unknown Product"))),
               Get(product.brands, PyStr("Unknown Brand")))

\* the name and the brand are cleaned, then the product analysed:
\* search_food_product
CleanedThenAnalysed(error, profile, product, strict_mode) ==
    IF error # "no" THEN [NewAnalysis EXCEPT !.raised = error]
    ELSE analyze_product_safety(profile, product, strict_mode)

\* the product is analysed, and its name and brand cleaned when the analysis
\* finds it safe without a warning: search_safe_food_only
AnalysedThenCleaned(a, error) ==
    IF a.raised = "no" /\ a.is_safe /\ a.warnings = <<>> /\ error # "no"
    THEN [a EXCEPT !.raised = error]
    ELSE a

-----------------------------------------------------------------------------
(* Profile management: safe_parse_parameter, set_user_profile,             *)
(* save_user_profile, clear_user_profile, load_user_profile                *)

\* json.loads(text) and ast.literal_eval(text) on the texts of the model:
\* brackets, parentheses, commas, blanks, tabs, line breaks, control
\* characters, integers without
\* a sign and strings in quotes without a backslash, every item followed by
\* a comma or by the closing sign.  JSON has no parentheses, no single quotes and no comma
\* before the closing bracket; the literals of Python have all three, and
\* items with commas outside any bracket are a tuple that ends with the text.

Unparsed == [ok |-> FALSE]
Parsed(v, e) == [ok |-> TRUE, v |-> v, e |-> e]

\* the characters no string in quotes may hold as they are: JSON refuses
\* every control character, Python a line break
IsLineBreak(c) == c \in {"\n", "\r"}
RefusedInQuotes(python) == IF python THEN {"\n", "\r"} ELSE ControlSet

\* what may stand between the tokens: in JSON the blank, the tab and the
\* line breaks, in Python the form feed too, and a line break ends an
\* expression that stands outside every bracket
Spaces(python) == IF python THEN {" ", "\t", "\f", "\n", "\r"} ELSE {" ", "\t", "\n", "\r"}
SkipEnd(s, i, python) == RunUntil(s, i, LAMBDA c : c \in Spaces(python))

\* the string between the quotes at i and at close; e is the place after it
QuotedUntil(s, i, close, python) ==
    IF \E j \in (i + 1)..(close - 1) : Char(s, j) \in RefusedInQuotes(python) THEN Unparsed
    ELSE Parsed(PyStr(SubSeq(s, i + 1, close - 1)), close + 1)

\* the string that opens at i with the quote q
QuotedAt(s, i, Closes, python) ==
    IF Closes = {} THEN Unparsed
    ELSE QuotedUntil(s, i, Least(Closes), python)

\* the integer at i: JSON takes no zero before another digit, Python takes
\* it before zeros only
NumberAt(s, i, e, python) ==
    IF Char(s, i) = "0" /\ e > i /\ (~python \/ DigitsValue(SubSeq(s, i, e)) # 0) THEN Unparsed
    ELSE Parsed(PyInt(DigitsValue(SubSeq(s, i, e))), e + 1)

\* what the closing sign makes of the items: a list, a tuple, or for one
\* item in parentheses without a comma the item itself
Closed(close, items, comma) ==
    IF close = "]" THEN PyList(items)
    ELSE IF Len(items) = 1 /\ ~comma THEN items[1]
    ELSE PyTuple(items)

\* the close of a tuple written without parentheses: the end of the text
EndOfText == "end"

\* what is skipped between the items: inside brackets every blank and line
\* break; outside them a line break ends the expression, so only blanks and
\* tabs, or all that is left when nothing else follows
GapEnd(s, i, close, python) ==
    IF close # EndOfText \/ SkipEnd(s, i, python) = Len(s) THEN SkipEnd(s, i, python)
    ELSE RunUntil(s, i, LAMBDA c : c \in {" ", "\t", "\f"})

RECURSIVE ValueFrom(_, _, _), ItemsFrom(_, _, _, _, _, _)

\* the value that starts at i, blanks skipped
ValueAt(s, i, python) == ValueFrom(s, SkipEnd(s, i, python) + 1, python)

\* the items up to the closing sign; `comma` is whether a comma came last
ItemsAt(s, i, close, python, items, comma) ==
    ItemsFrom(s, GapEnd(s, i, close, python) + 1, close, python, items, comma)

\* after an item: a comma, or the closing sign
AfterItem(s, i, close, python, items) ==
    IF i <= Len(s) /\ Char(s, i) = "," THEN ItemsAt(s, i + 1, close, python, items, TRUE)
    ELSE ItemsFrom(s, i, close, python, items, FALSE)

NextItem(s, close, python, items, r) ==
    IF ~r.ok THEN Unparsed
    ELSE AfterItem(s, GapEnd(s, r.e, close, python) + 1, close, python, Append(items, r.v))

ValueFrom(s, i, python) ==
    IF i > Len(s) THEN Unparsed
    ELSE IF IsDigit(Char(s, i)) THEN NumberAt(s, i, DigitRunEnd(s, i), python)
    ELSE IF Char(s, i) = "\"" \/ (python /\ Char(s, i) = "'")
         THEN QuotedAt(s, i, {j \in (i + 1)..Len(s) : Char(s, j) = Char(s, i)}, python)
    ELSE IF Char(s, i) = "[" THEN ItemsAt(s, i + 1, "]", python, <<>>, FALSE)
    ELSE IF python /\ Char(s, i) = "(" THEN ItemsAt(s, i + 1, ")", python, <<>>, FALSE)
    ELSE Unparsed

ItemsFrom(s, i, close, python, items, comma) ==
    IF i > Len(s)
    THEN (IF close = EndOfText THEN Parsed(PyTuple(items), i) ELSE Unparsed)
    ELSE IF Char(s, i) = close
         THEN (IF comma /\ ~python THEN Unparsed ELSE Parsed(Closed(close, items, comma), i + 1))
    ELSE IF items # <<>> /\ ~comma THEN Unparsed
    ELSE NextItem(s, close, python, items, ValueFrom(s, i, python))

\* the whole text is one value
WholeText(s, r, python) == IF r.ok /\ SkipEnd(s, r.e, python) = Len(s) THEN r ELSE Unparsed

\* json.loads(param_value): ok = FALSE for JSONDecodeError
JsonLoads(s) == WholeText(s, ValueAt(s, 1, FALSE), FALSE)

\* the text from `first` to `last` stands on an indented line: a blank or a
\* tab comes right before it and a line break or a form feed before that
\* (literal_eval drops the blanks and tabs the text starts with, a form feed
\* sets the indentation back to none), or a line break
\* comes after it and the text ends with a blank or a tab
IndentedBetween(s, first, last) ==
    \/ /\ \E j \in 1..(first - 1) : Char(s, j) \notin {" ", "\t"}
       /\ Char(s, first - 1) \in {" ", "\t"}
    \/ /\ \E j \in (last + 1)..Len(s) : IsLineBreak(Char(s, j))
       /\ Char(s, Len(s)) \in {" ", "\t"}

\* the parser of Python refuses a first line that is indented
\* (IndentationError, a SyntaxError); blank lines are skipped
Indented(s, Inked) == Inked # {} /\ IndentedBetween(s, Least(Inked), Greatest(Inked))

\* the expression whose first value is r: a comma behind it, outside any
\* bracket, makes it the first item of a tuple
Expression(s, r, i) ==
    IF r.ok /\ i <= Len(s) /\ Char(s, i) = ","
    THEN ItemsAt(s, i + 1, EndOfText, TRUE, <<r.v>>, TRUE)
    ELSE r
FirstValue(s, r) == IF r.ok THEN Expression(s, r, GapEnd(s, r.e, EndOfText, TRUE) + 1) ELSE r

\* ast.literal_eval(param_value): ok = FALSE for ValueError and SyntaxError
LiteralEval(s) ==
    IF Indented(s, {i \in 1..Len(s) : Char(s, i) \notin Spaces(TRUE)}) THEN Unparsed
    ELSE WholeText(s, FirstValue(s, ValueAt(s, 1, TRUE)), TRUE)

\* isinstance(parsed, expected_type)
ParsedAs(r, expected_type) == r.ok /\ r.v.t = expected_type

\* expected_type()
EmptyOf(expected_type) == IF expected_type = "list" THEN PyList(<<>>) ELSE PyDict(<<>>)

\* the branch of a string parameter: blank, JSON, a Python literal, or the
\* empty container
TextParameter(s, expected_type, json, literal) ==
    IF StrStrip(s) = "" THEN EmptyOf(expected_type)
    ELSE IF ParsedAs(json, expected_type) THEN json.v
    ELSE IF ParsedAs(literal, expected_type) THEN literal.v
    ELSE EmptyOf(expected_type)

\* safe_parse_parameter(param_value, expected_type) for expected_type list
\* or dict
safe_parse_parameter(param_value, expected_type) ==
    IF param_value = PyNone THEN PyNone
    ELSE IF param_value.t = expected_type THEN param_value
    ELSE IF param_value.t = "str"
         THEN TextParameter(param_value.s, expected_type, JsonLoads(param_value.s),
                            LiteralEval(param_value.s))
    ELSE param_value

\* params.get(key): None for a missing key
ParamGet(v) == Get(v, PyNone)

\* parsed_profile, with `{k: v for k, v in parsed_profile.items() if v is not None}`
\* applied: a None value is a missing key of the profile
ParseProfile(params) ==
    LET Keep(v) == IF v = PyNone THEN Absent ELSE v
    IN PyDict([profile_name |-> Keep(Get(params.profile_name, PyStr("Custom Profile"))),
               allergies |-> Keep(safe_parse_parameter(ParamGet(params.allergies), "list")),
               intolerances |-> Keep(safe_parse_parameter(ParamGet(params.intolerances), "list")),
               medical_conditions |->
                   Keep(safe_parse_parameter(ParamGet(params.medical_conditions), "list")),
               dietary_preferences |->
                   Keep(safe_parse_parameter(ParamGet(params.dietary_preferences), "dict")),
               avoid_additives |->
                   Keep(safe_parse_parameter(ParamGet(params.avoid_additives), "list")),
               nutrient_limits |->
                   Keep(safe_parse_parameter(ParamGet(params.nutrient_limits), "dict"))])

\* json.dump(value): the JSON document, kept as the value json.load makes of
\* it.  A list and a tuple are both written as an array, and an array is
\* read as a list.
RECURSIVE JsonOf(_)
JsonOf(v) ==
    CASE v.t \in {"list", "tuple"} -> PyList([i \in 1..Len(v.l) |-> JsonOf(v.l[i])])
      [] v.t = "dict" -> PyDict([i \in 1..Len(v.d) |-> <<v.d[i][1], JsonOf(v.d[i][2])>>])
      [] OTHER -> v

\* json.dump(USER_PROFILE, f): the profile is a dict of its keys
SavedDocument(profile) == PyDict([k \in DOMAIN profile.d |-> JsonOf(profile.d[k])])

\* save_user_profile(): the document is written when a profile is set
SavedFile(profile, file) == IF profile # PyNone THEN SavedDocument(profile) ELSE file

\* a profile file that open(..., 'w') has emptied and that was not written
\* to its end: no JSON document
CutShort == [t |-> "cut short"]

\* what becomes of the file in save_user_profile
SaveOutcomes == {"saved", "not opened", "cut short"}

\* load_user_profile(): the document of the file, None without a file, and
\* None for a file that json.load cannot parse
LoadedProfile(file) == IF file \in {Absent, CutShort} THEN PyNone ELSE file

-----------------------------------------------------------------------------
(* The inputs of the model *)

Strs(seq) == PyList([i \in 1..Len(seq) |-> PyStr(seq[i])])

\* a product record of the catalog with no field at all
NoFields ==
    [product_name |-> Absent, generic_name |-> Absent, categories |-> Absent,
     labels |-> Absent, traces |-> Absent, ingredients_text |-> Absent,
     allergens_tags |-> Absent, labels_tags |-> Absent, categories_tags |-> Absent,
     ingredients_analysis_tags |-> Absent, additives_tags |-> Absent, nutriments |-> Absent,
     brands |-> Absent]

IngredientTexts ==
    {Absent,
     PyNone,
     PyStr(""),
     PyStr("rice"),
     PyStr("milk, sugar, wheat flour"),
     PyStr("contains almond flour"),
     PyStr("Sugar, vegan status unknown"),
     PyStr("Vegetarian Status Unknown"),
     PyStr("water, oat fiber, salt, rice"),
     PyStr("  rice, water, salt       "),
     PyStr("Beef stock, Lactose, pepper"),
     PyStr("eggplant, coconut oil, cocoa")}

\* the tag lists and the other texts of a record
TagChoices ==
    {NoFields,
     [NoFields EXCEPT !.allergens_tags = Strs(<<"en:milk", "en:gluten">>),
                      !.labels_tags = Strs(<<"en:organic", "en:Vegan", "en:vegetarian">>),
                      !.additives_tags = Strs(<<"en:e330">>)],
     [NoFields EXCEPT !.allergens_tags = Strs(<<"en:Nuts">>),
                      !.labels_tags = Strs(<<"en:organic">>),
                      !.additives_tags = Strs(<<>>)],
     [NoFields EXCEPT !.allergens_tags = Strs(<<>>),
                      !.labels_tags = Strs(<<"en:vegetarian">>),
                      !.additives_tags = Strs(<<"en:e150d", "en:E330">>),
                      !.traces = PyStr("en:peanuts")],
     [NoFields EXCEPT !.product_name = PyStr("Walnut Bread"),
                      !.categories_tags = Strs(<<"en:breads">>)]}

NutrimentChoices ==
    {Absent,
     PyDict(<<<<"sugars_100g", PyFloat(120)>>, <<"salt_100g", PyFloat(20)>>,
              <<"fat_100g", PyFloat(25)>>>>),
     PyDict(<<<<"sugars", PyFloat(120)>>, <<"salt", PyFloat(2)>>>>),
     PyDict(<<<<"sugars_100g", PyStr("12")>>, <<"fat_100g", PyStr("n/a")>>>>),
     PyDict(<<<<"sugars_100g", PyInt(5)>>, <<"salt_100g", PyFloat(15)>>,
              <<"note", PyStr("Hazelnut: 2.5%")>>>>),
     PyDict(<<<<"salt_100g", PyNone>>, <<"sugars", PyInt(30)>>>>),
     PyDict(<<<<"nutrition-score-fr_100g", PyInt(4)>>, <<"note", PyStr("nuts 0 %")>>>>),
     PyDict(<<<<"note", PyStr("hazelnut 2.5%, peanut 0%")>>>>),
     PyDict(<<<<"note", PyStr("walnut oil")>>>>),
     PyDict(<<<<"note", PyStr("May contain nut traces")>>>>)}

\* a record: every text with every choice of tags, and every nutriments dict
\* with two of the texts and two of the choices of tags
Record(text, tags, nutriments) ==
    [[tags EXCEPT !.ingredients_text = text] EXCEPT !.nutriments = nutriments]

Products ==
    {Record(text, tags, Absent) : text \in IngredientTexts, tags \in TagChoices}
    \cup
    {Record(text, tags, nutriments) :
        text \in {PyStr("water, oat fiber, salt, rice"), PyStr("milk, sugar, wheat flour")},
        tags \in {NoFields,
                  [NoFields EXCEPT !.allergens_tags = Strs(<<>>),
                                   !.labels_tags = Strs(<<"en:vegetarian">>),
                                   !.additives_tags = Strs(<<"en:e150d", "en:E330">>),
                                   !.traces = PyStr("en:peanuts")]},
        nutriments \in NutrimentChoices}

\* the parameters of set_user_profile
NoParams ==
    [profile_name |-> Absent, allergies |-> Absent, intolerances |-> Absent,
     medical_conditions |-> Absent, dietary_preferences |-> Absent,
     avoid_additives |-> Absent, nutrient_limits |-> Absent]

AllergyChoices ==
    {Absent, Strs(<<"Milk">>), Strs(<<"nuts", "Gluten">>), Strs(<<"Tree Nuts">>)}

PreferenceChoices ==
    {PyNone,
     PyDict(<<<<"vegan", PyBool(TRUE)>>>>),
     PyDict(<<<<"vegetarian", PyBool(TRUE)>>>>),
     PyDict(<<<<"vegan", PyBool(TRUE)>>, <<"vegetarian", PyBool(TRUE)>>,
              <<"low_sugar", PyBool(TRUE)>>>>),
     PyDict(<<<<"vegan", PyBool(FALSE)>>, <<"low_sugar", PyBool(TRUE)>>,
              <<"low_salt", PyBool(TRUE)>>>>)}

\* intolerances, avoided additives and nutrient limits
OtherChoices ==
    {NoParams,
     [NoParams EXCEPT !.profile_name = PyStr("Mine"),
                      !.intolerances = Strs(<<"Lactose">>),
                      !.avoid_additives = PyStr(""),
                      !.medical_conditions = Strs(<<"diabetes">>)],
     [NoParams EXCEPT !.avoid_additives = Strs(<<"E330">>)],
     [NoParams EXCEPT !.medical_conditions = PyStr("[\"diabetes\", 2]"),
                      !.avoid_additives = PyStr("['E330', ]"),
                      !.intolerances = PyStr("(1, 2)")],
     [NoParams EXCEPT !.medical_conditions = PyStr(" ['diabetes', (1, 2)] "),
                      !.intolerances = PyStr("[\"soy\nmilk\"]"),
                      !.nutrient_limits = PyStr("[1]")],
     [NoParams EXCEPT !.nutrient_limits =
                          PyDict(<<<<"sugars_100g", PyInt(10)>>, <<"salt_100g", PyFloat(15)>>>>)],
     [NoParams EXCEPT !.nutrient_limits = PyDict(<<<<"fat_100g", PyInt(-1)>>>>)]}

\* the parameters: every choice of allergies with every choice of
\* preferences, and every other choice with some of those
Params(other, allergies, prefs) ==
    [[other EXCEPT !.allergies = allergies] EXCEPT !.dietary_preferences = prefs]

ProfileParams ==
    {Params(NoParams, allergies, prefs) :
        allergies \in AllergyChoices, prefs \in PreferenceChoices}
    \cup
    {Params(other, allergies, prefs) :
        other \in OtherChoices,
        allergies \in {Absent, Strs(<<"Milk">>)},
        prefs \in {PyNone,
                   PyDict(<<<<"vegan", PyBool(TRUE)>>, <<"vegetarian", PyBool(TRUE)>>,
                            <<"low_sugar", PyBool(TRUE)>>>>),
                   PyDict(<<<<"vegan", PyBool(FALSE)>>, <<"low_sugar", PyBool(TRUE)>>,
                            <<"low_salt", PyBool(TRUE)>>>>)}}

\* the profile documents a start of the plugin may find saved
SavedProfiles ==
    {Absent,
     ParseProfile([NoParams EXCEPT !.allergies = Strs(<<"nuts">>),
                                   !.dietary_preferences = PyDict(<<<<"vegan", PyBool(TRUE)>>>>)])}

-----------------------------------------------------------------------------
(* main(): the command loop, one tool call at a time *)

NoRequest == [func |-> "none"]
NoResponse == [success |-> FALSE, kind |-> "none"]

\* the history before any call is kept
NoCall == [profile |-> PyNone, request |-> NoRequest, response |-> NoResponse, since |-> 0]

\* the calls answered since the one kept are counted up to MaxSince
MaxSince == 2

\* the history after one more call is answered
Later(e) == IF e = NoCall \/ e.since >= MaxSince THEN e ELSE [e EXCEPT !.since = @ + 1]

\* no call of analyze_product_safety runs, and none has left lists behind
NoReader == [at |-> 0, acc |-> NewAnalysis]

\* the handler has not called analyze_product_safety: no call counted, no
\* strict_mode passed
NoAnalyses == [count |-> 0, modes |-> {}]

\* main() before the first command: nothing received, nothing answered
NoCalls == [received |-> <<>>, inbox |-> <<>>, answered |-> <<>>]

\* the variables of search_food_product while no search runs
SearchIdle ==
    /\ filters = PyNone
    /\ limits = PyNone
    /\ spc = "idle"
    /\ total_checked = 0
    /\ filtered_results = 0
    /\ cur = PyNone
    /\ outcome = PyNone

\* main() starts with load_user_profile(): the profile in memory is the
\* document the file holds, or None when there is no file
Start(file) ==
    /\ PROFILE_FILE = file
    /\ USER_PROFILE = LoadedProfile(file)
    /\ pc = "idle"
    /\ request = NoRequest
    /\ response = NoResponse
    /\ catalog_requests = 0
    /\ SearchIdle
    /\ earlier = NoCall
    /\ reader = NoReader
    /\ loop = NoCalls
    /\ analyses = NoAnalyses
    /\ file_io = "none"

Init == \E file \in SavedProfiles : Start(file)

\* the documents an earlier run of the plugin may have left in the file: one
\* for each of the parameters of set_user_profile
EverySavedProfile ==
    SavedProfiles \cup {SavedDocument(ParseProfile(params)) : params \in ProfileParams}

\* a start of the plugin over any of the saved documents
ProfileInit == \E file \in EverySavedProfile : Start(file)

\* the parameters set_user_profile is called with after such a start
SetParams ==
    {[NoParams EXCEPT !.allergies = Strs(<<"Milk">>)],
     [NoParams EXCEPT !.medical_conditions = PyStr("[\"diabetes\", 2]"),
                      !.avoid_additives = PyStr("['E330', ]"),
                      !.intolerances = PyStr("(1, 2)")],
     [NoParams EXCEPT !.medical_conditions = PyStr(" ['diabetes', (1, 2)] "),
                      !.intolerances = PyStr("[\"soy\nmilk\"]"),
                      !.nutrient_limits = PyStr("[1]")],
     [NoParams EXCEPT !.allergies = Strs(<<"nuts", "Gluten">>),
                      !.dietary_preferences = PyNone]}

\* a variant of SetUserProfile: a key the parameters leave out keeps the
\* value of the profile that was active
MergeUserProfile(params) ==
    /\ pc = "idle"
    /\ USER_PROFILE' =
          IF USER_PROFILE = PyNone THEN ParseProfile(params)
          ELSE PyDict([k \in DOMAIN USER_PROFILE.d |->
                          IF ParseProfile(params).d[k] = Absent THEN USER_PROFILE.d[k]
                          ELSE ParseProfile(params).d[k]])
    /\ request' = [func |-> "set_user_profile", params |-> params]
    /\ pc' = "saving"
    /\ UNCHANGED <<PROFILE_FILE, response, file_io>>
    /\ UNCHANGED searchVars
    /\ UNCHANGED <<reader, loop, analyses, earlier, catalog_requests>>

\* set_user_profile(params) with params given, up to the assignment of
\* USER_PROFILE: the new profile is active before its file is written
SetUserProfile(params) ==
    /\ pc = "idle"
    /\ USER_PROFILE' = ParseProfile(params)
    /\ request' = [func |-> "set_user_profile", params |-> params]
    /\ pc' = "saving"
    /\ UNCHANGED <<PROFILE_FILE, response, file_io>>
    /\ UNCHANGED searchVars
    /\ UNCHANGED <<reader, loop, analyses, earlier, catalog_requests>>

\* set_user_profile from save_user_profile() on. The document is written;
\* or os.makedirs or open raises and the file stays as it was; or open has
\* emptied the file and the dump or the close raises, which leaves a
\* document cut short. A failure is logged, and the answer is the success
\* whatever became of the file
SaveUserProfile(written) ==
    /\ pc = "saving"
    /\ PROFILE_FILE' = CASE written = "saved" -> SavedFile(USER_PROFILE, PROFILE_FILE)
                         [] written = "not opened" -> PROFILE_FILE
                         [] written = "cut short" -> CutShort
    /\ file_io' = IF written = "saved" THEN "saved" ELSE "save failed"
    /\ response' = [success |-> TRUE, kind |-> "profile set"]
    /\ pc' = "responded"
    /\ earlier' = Later(earlier)
    /\ UNCHANGED <<USER_PROFILE, request>>
    /\ UNCHANGED searchVars
    /\ UNCHANGED <<reader, loop, analyses, catalog_requests>>

\* set_user_profile(params) with params None or {}
SetUserProfileNoParams ==
    /\ pc = "idle"
    /\ request' = [func |-> "set_user_profile", params |-> PyNone]
    /\ response' = [success |-> FALSE, kind |-> "Profile data is required."]
    /\ pc' = "responded"
    /\ UNCHANGED <<USER_PROFILE, PROFILE_FILE>>
    /\ UNCHANGED searchVars
    /\ UNCHANGED reader
    /\ UNCHANGED loop
    /\ UNCHANGED analyses
    /\ UNCHANGED file_io
    /\ earlier' = Later(earlier)
    /\ UNCHANGED catalog_requests

\* clear_user_profile() up to `USER_PROFILE = None`: the profile is dropped
\* before its file is looked for
ClearUserProfile ==
    /\ pc = "idle"
    /\ USER_PROFILE' = PyNone
    /\ request' = [func |-> "clear_user_profile"]
    /\ pc' = "removing"
    /\ UNCHANGED <<PROFILE_FILE, response, file_io>>
    /\ UNCHANGED searchVars
    /\ UNCHANGED <<reader, loop, analyses, earlier, catalog_requests>>

\* clear_user_profile from os.path.exists on: a file that is there is
\* removed, or os.remove raises, the failure is logged and the file stays;
\* the answer is the success either way
RemoveProfileFile(removed) ==
    /\ pc = "removing"
    /\ PROFILE_FILE' = IF removed THEN Absent ELSE PROFILE_FILE
    /\ file_io' = IF PROFILE_FILE = Absent THEN "no file"
                  ELSE IF removed THEN "removed" ELSE "remove failed"
    /\ response' = [success |-> TRUE, kind |-> "profile cleared"]
    /\ pc' = "responded"
    /\ earlier' = Later(earlier)
    /\ UNCHANGED <<USER_PROFILE, request>>
    /\ UNCHANGED searchVars
    /\ UNCHANGED <<reader, loop, analyses, catalog_requests>>

\* what a caller of analyze_product_safety gets: the tuple it returns, or
\* the exception
Verdict(acc) ==
    IF acc.raised # "no"
    THEN [success |-> FALSE, kind |-> "raised", error |-> acc.raised]
    ELSE [success |-> TRUE, kind |-> "verdict", is_safe |-> acc.is_safe,
          warnings |-> acc.warnings, recommendations |-> acc.recommendations]

\* one classification: analyze_product_safety(product, strict_mode), lenient
\* for a lookup or a search, strict for the safe-only search
ClassifyProduct(product, strict_mode) ==
    /\ pc = "idle"
    /\ request' = [func |-> "analyze_product_safety", product |-> product,
                   strict_mode |-> strict_mode]
    /\ response' = Verdict(analyze_product_safety(USER_PROFILE, product, strict_mode))
    /\ pc' = "responded"
    /\ UNCHANGED <<USER_PROFILE, PROFILE_FILE>>
    /\ UNCHANGED searchVars
    /\ UNCHANGED reader
    /\ UNCHANGED loop
    /\ UNCHANGED file_io
    /\ analyses' = [count |-> 1, modes |-> {strict_mode}]
    /\ earlier' = Later(earlier)
    /\ UNCHANGED catalog_requests

\* the tool calls after the response to `call` is written: the call leaves
\* the ones of the command still to be handled
Written(l, call) ==
    IF l.inbox = <<>> THEN l
    ELSE [l EXCEPT !.inbox = Tail(@), !.answered = Append(@, call)]

\* write_response(response): the loop goes on to the next tool call or back
\* to read_command(); after the response to shutdown main() returns
WriteResponse ==
    /\ pc = "responded"
    /\ request' = NoRequest
    /\ response' = NoResponse
    /\ pc' = IF request.func = "shutdown" THEN "stopped" ELSE "idle"
    /\ UNCHANGED <<USER_PROFILE, PROFILE_FILE>>
    /\ UNCHANGED searchVars
    /\ UNCHANGED reader
    /\ loop' = Written(loop, request)
    /\ analyses' = NoAnalyses
    /\ file_io' = "none"
    /\ UNCHANGED earlier
    /\ catalog_requests' = 0

Next ==
    \/ \E params \in SetParams : SetUserProfile(params)
    \/ SetUserProfileNoParams
    \/ ClearUserProfile
    \/ \E written \in SaveOutcomes : SaveUserProfile(written)
    \/ \E removed \in BOOLEAN : RemoveProfileFile(removed)
    \/ \E product \in Products, strict_mode \in BOOLEAN : ClassifyProduct(product, strict_mode)
    \/ WriteResponse

Spec == ProfileInit /\ [][Next]_vars

-----------------------------------------------------------------------------
(* search_food_product: the loop over the products the catalog returned *)

\* `if len(filtered_results) >= 10 or total_checked >= 50: break`
MaxResults == 10
MaxChecked == 50

\* the longest list of products the catalog returns in the model
MaxCandidates == 60

NoSearchParams ==
    [product_name |-> Absent, low_fat |-> Absent, low_fiber |-> Absent, low_sugar |-> Absent,
     low_salt |-> Absent, no_nuts |-> Absent, max_calories |-> Absent,
     min_calories |-> Absent, max_fat |-> Absent, max_fiber |-> Absent, min_fiber |-> Absent,
     max_sugar |-> Absent, max_salt |-> Absent, min_protein |-> Absent, max_protein |-> Absent]

Named == [NoSearchParams EXCEPT !.product_name = PyStr("bread")]

SearchParams ==
    {Named,
     [NoSearchParams EXCEPT !.product_name = PyInt(5)],
     [Named EXCEPT !.low_fat = PyBool(TRUE)],
     [Named EXCEPT !.low_fat = PyBool(TRUE), !.max_fat = PyFloat(100)],
     [Named EXCEPT !.no_nuts = PyBool(TRUE), !.max_sugar = PyInt(5)],
     [Named EXCEPT !.min_protein = PyFloat(50), !.max_calories = PyInt(100)]}

SearchProducts ==
    {[NoFields EXCEPT !.ingredients_text = PyStr("water, oat fiber, salt, rice"),
                      !.nutriments =
                          PyDict(<<<<"fat_100g", PyFloat(25)>>, <<"sugars_100g", PyFloat(40)>>,
                                   <<"energy-kcal_100g", PyInt(90)>>,
                                   <<"proteins_100g", PyFloat(80)>>>>)],
     [NoFields EXCEPT !.ingredients_text = PyStr("milk, sugar, wheat flour"),
                      !.nutriments =
                          PyDict(<<<<"fat", PyFloat(120)>>, <<"sugars_100g", PyFloat(300)>>,
                                   <<"energy-kcal", PyInt(350)>>, <<"proteins", PyInt(3)>>>>)],
     [NoFields EXCEPT !.ingredients_text = PyStr("contains almond flour")],
     [NoFields EXCEPT !.nutriments =
                          PyDict(<<<<"fat_100g", PyStr("n/a")>>, <<"proteins_100g", PyStr("7.5")>>>>)],
     [NoFields EXCEPT !.nutriments =
                          PyDict(<<<<"fat_100g", PyStr("3.0")>>, <<"sugars_100g", PyStr("12")>>>>)]}

SearchProfiles ==
    {PyNone,
     ParseProfile([NoParams EXCEPT
                      !.allergies = Strs(<<"Milk">>),
                      !.dietary_preferences = PyDict(<<<<"low_sugar", PyBool(TRUE)>>>>)])}

\* the variables of main() while the model follows one search
MainIdle ==
    /\ pc = "idle"
    /\ request = NoRequest
    /\ response = NoResponse
    /\ catalog_requests = 0
    /\ earlier = NoCall
    /\ reader = NoReader
    /\ loop = NoCalls
    /\ analyses = NoAnalyses
    /\ file_io = "none"

SearchInit ==
    /\ USER_PROFILE \in SearchProfiles
    /\ PROFILE_FILE = (IF USER_PROFILE = PyNone THEN Absent ELSE USER_PROFILE)
    /\ MainIdle
    /\ SearchIdle

\* search_food_product(params) without a product name
SearchWithoutName ==
    /\ spc = "idle"
    /\ response' = [success |-> FALSE, kind |-> "Product name parameter is required."]
    /\ spc' = "done"
    /\ UNCHANGED <<file_io, analyses, loop, reader, earlier, catalog_requests, USER_PROFILE, PROFILE_FILE, pc, request, filters, limits, total_checked,
                   filtered_results, cur, outcome>>

\* what the catalog answers to the request of a search: no answer in time,
\* another requests.RequestException, a status code other than 200, a body
\* that json.JSONDecodeError refuses, or a document with a list of products
SearchAnswers ==
    {[kind |-> "timeout"], [kind |-> "request error"], [kind |-> "status", code |-> 500],
     [kind |-> "no json"], [kind |-> "json"]}

\* what search_food_product returns when the catalog gives no document
SearchFailure(answer) ==
    CASE answer.kind = "timeout" ->
            [success |-> FALSE, kind |-> "Request timed out. Please try again."]
      [] answer.kind = "request error" ->
            [success |-> FALSE, kind |-> "Error searching products"]
      [] answer.kind = "status" ->
            [success |-> FALSE, kind |-> "Failed to search products."]
      [] answer.kind = "no json" ->
            [success |-> FALSE, kind |-> "Failed to parse search results."]

\* what search_food_product returns after its loop, or for an empty list
SearchResponse(results) ==
    [success |-> TRUE,
     kind |-> IF results = 0 THEN "No products found" ELSE "Found products"]

\* search_food_product(params) up to the loop: the filters, the limits, the
\* request to the catalog. A product_name that is no string has no
\* `replace`: the exception is raised before the try and leaves the handler
StartSearch(params, answer) ==
    /\ spc = "idle"
    /\ params.product_name # Absent
    /\ filters' = ExtractFilters(params)
    /\ limits' = ComputeLimits(ExtractFilters(params))
    /\ total_checked' = 0
    /\ filtered_results' = 0
    /\ IF params.product_name.t # "str"
       THEN /\ spc' = "raised"
            /\ catalog_requests' = 0
            /\ UNCHANGED response
       ELSE /\ catalog_requests' = 1
            /\ IF answer.kind = "json"
               THEN /\ spc' = "loop"
                    /\ UNCHANGED response
               ELSE /\ spc' = "done"
                    /\ response' = SearchFailure(answer)
    /\ UNCHANGED <<file_io, analyses, loop, reader, earlier, USER_PROFILE, PROFILE_FILE, pc, request, cur, outcome>>

\* what one iteration computes for its product before it moves on: the
\* filter's answer, then the analysis of an admitted product
Judged(m, a) ==
    IF m.r = "raise" THEN [kind |-> "raised", error |-> m.error]
    ELSE IF m.r = "reject" THEN [kind |-> "skipped", reason |-> m]
    ELSE IF a.raised # "no" THEN [kind |-> "raised", error |-> a.raised]
    ELSE [kind |-> "admitted", is_safe |-> a.is_safe, warnings |-> a.warnings]
Judge(profile, product, f, lim) ==
    Judged(IF HasNutrientFilters(f, lim) THEN meets_nutrient_filters(product, f, lim) ELSE Pass,
           CleanedThenAnalysed(CleaningError(product), profile, product, FALSE))

\* the head of the loop body: the next product of the list is counted,
\* filtered and, if admitted, analysed
Inspect(product) ==
    /\ spc = "loop"
    /\ total_checked < MaxCandidates
    /\ total_checked' = total_checked + 1
    /\ cur' = product
    /\ outcome' = Judge(USER_PROFILE, product, filters, limits)
    /\ spc' = "judged"
    /\ UNCHANGED <<file_io, analyses, loop, reader, earlier, catalog_requests, USER_PROFILE, PROFILE_FILE, pc, request, response, filters, limits,
                   filtered_results>>

\* whether the loop is left after this iteration: `continue` for a product
\* the filter refuses, else the test at the end of the body
LeavesLoop(kind, results, checked) ==
    /\ kind = "admitted"
    /\ results >= MaxResults \/ checked >= MaxChecked

\* the rest of the loop body
Advance ==
    /\ spc = "judged"
    /\ filtered_results' =
          IF outcome.kind = "admitted" THEN filtered_results + 1 ELSE filtered_results
    /\ IF outcome.kind = "raised"
       THEN /\ spc' = "done"
            /\ response' = [success |-> FALSE, kind |-> "An unexpected error occurred"]
       ELSE IF LeavesLoop(outcome.kind, filtered_results', total_checked)
            THEN /\ spc' = "done"
                 /\ response' = SearchResponse(filtered_results')
            ELSE /\ spc' = "loop"
                 /\ UNCHANGED response
    /\ cur' = PyNone
    /\ outcome' = PyNone
    /\ UNCHANGED <<file_io, analyses, loop, reader, earlier, catalog_requests, USER_PROFILE, PROFILE_FILE, pc, request, filters, limits, total_checked>>

\* the list of products has no further element
Exhausted ==
    /\ spc = "loop"
    /\ spc' = "done"
    /\ response' = SearchResponse(filtered_results)
    /\ UNCHANGED <<file_io, analyses, loop, reader, earlier, catalog_requests, USER_PROFILE, PROFILE_FILE, pc, request, filters, limits, total_checked,
                   filtered_results, cur, outcome>>

\* the handler has returned; the next search starts afresh
SearchReturn ==
    /\ spc = "done"
    /\ response' = NoResponse
    /\ filters' = PyNone
    /\ limits' = PyNone
    /\ spc' = "idle"
    /\ total_checked' = 0
    /\ filtered_results' = 0
    /\ catalog_requests' = 0
    /\ UNCHANGED <<file_io, analyses, loop, reader, earlier, USER_PROFILE, PROFILE_FILE, pc, request, cur, outcome>>

SearchNext ==
    \/ SearchWithoutName
    \/ \E params \in SearchParams, answer \in SearchAnswers : StartSearch(params, answer)
    \/ \E product \in SearchProducts : Inspect(product)
    \/ Advance
    \/ Exhausted
    \/ SearchReturn

SearchSpec == SearchInit /\ [][SearchNext]_vars

-----------------------------------------------------------------------------
(* meets_nutrient_filters as a function of the parameters and the product *)

FatParams ==
    {[Named EXCEPT !.low_fat = low, !.max_fat = max] :
        low \in {Absent, PyBool(FALSE), PyBool(TRUE)},
        max \in {Absent, PyNone, PyFloat(30), PyFloat(100), PyInt(2), PyInt(0)}}

OtherLowParams ==
    {[Named EXCEPT !.low_fiber = PyBool(TRUE)],
     [Named EXCEPT !.low_fiber = PyBool(TRUE), !.max_fiber = PyFloat(100)],
     [Named EXCEPT !.max_fiber = PyFloat(30)],
     [Named EXCEPT !.low_sugar = PyBool(TRUE)],
     [Named EXCEPT !.low_sugar = PyBool(TRUE), !.max_sugar = PyFloat(100)],
     [Named EXCEPT !.max_sugar = PyFloat(50)],
     [Named EXCEPT !.low_salt = PyBool(TRUE)],
     [Named EXCEPT !.low_salt = PyBool(TRUE), !.max_salt = PyFloat(100)],
     [Named EXCEPT !.max_salt = PyFloat(3)]}

MixedParams ==
    {[Named EXCEPT !.no_nuts = PyBool(TRUE)],
     [Named EXCEPT !.no_nuts = PyBool(TRUE), !.low_fat = PyBool(TRUE)],
     [Named EXCEPT !.min_calories = PyInt(100)],
     [Named EXCEPT !.max_calories = PyInt(100), !.min_fiber = PyFloat(30)],
     [Named EXCEPT !.min_calories = PyInt(100), !.max_protein = PyFloat(50)],
     [Named EXCEPT !.min_protein = PyFloat(50), !.low_sugar = PyBool(TRUE)],
     [Named EXCEPT !.low_fat = PyBool(TRUE), !.low_fiber = PyBool(TRUE),
                   !.low_sugar = PyBool(TRUE), !.low_salt = PyBool(TRUE),
                   !.max_calories = PyInt(100), !.min_calories = PyInt(50),
                   !.min_fiber = PyInt(1), !.min_protein = PyInt(5),
                   !.max_protein = PyInt(20), !.no_nuts = PyBool(TRUE)]}

FilterParams == FatParams \cup OtherLowParams \cup MixedParams

Nutriments(items) == [NoFields EXCEPT !.nutriments = PyDict(items)]

FilterProducts ==
    {NoFields,
     [NoFields EXCEPT !.ingredients_text = PyStr("contains almond flour"),
                      !.nutriments = PyDict(<<<<"fat_100g", PyFloat(120)>>>>)],
     [NoFields EXCEPT !.ingredients_text = PyNone,
                      !.nutriments = PyDict(<<<<"fat_100g", PyFloat(20)>>>>)],
     [NoFields EXCEPT !.allergens_tags = Strs(<<"en:Peanuts">>)],
     Nutriments(<<<<"fat_100g", PyFloat(25)>>, <<"fiber_100g", PyFloat(30)>>,
                  <<"sugars_100g", PyFloat(50)>>, <<"salt_100g", PyFloat(3)>>,
                  <<"energy-kcal_100g", PyInt(100)>>, <<"proteins_100g", PyFloat(50)>>>>),
     Nutriments(<<<<"fat_100g", PyFloat(30)>>>>),
     Nutriments(<<<<"fat_100g", PyFloat(31)>>, <<"fiber_100g", PyFloat(31)>>,
                  <<"sugars_100g", PyFloat(51)>>, <<"salt_100g", PyFloat(4)>>,
                  <<"energy-kcal_100g", PyInt(101)>>, <<"proteins_100g", PyFloat(51)>>>>),
     Nutriments(<<<<"fat", PyFloat(120)>>, <<"fiber", PyInt(12)>>, <<"sugars", PyInt(12)>>,
                  <<"salt", PyFloat(12)>>, <<"energy-kcal", PyInt(40)>>,
                  <<"proteins", PyInt(2)>>>>),
     Nutriments(<<<<"fat_100g", PyNone>>, <<"fat", PyFloat(120)>>>>),
     Nutriments(<<<<"fat_100g", PyFloat(20)>>, <<"fat", PyFloat(120)>>>>),
     Nutriments(<<<<"fat_100g", PyStr("3.5")>>, <<"sugars_100g", PyStr(" 4 ")>>,
                  <<"salt_100g", PyStr("0.3")>>, <<"fiber_100g", PyStr("2.")>>>>),
     Nutriments(<<<<"fat_100g", PyStr("n/a")>>>>),
     Nutriments(<<<<"sugars_100g", PyStr("")>>, <<"salt_100g", PyStr("trace")>>,
                  <<"fiber_100g", PyStr("high")>>>>),
     Nutriments(<<<<"proteins_100g", PyStr("unknown")>>, <<"fat_100g", PyFloat(10)>>>>),
     Nutriments(<<<<"energy-kcal_100g", PyInt(40)>>, <<"proteins_100g", PyStr("unknown")>>>>),
     Nutriments(<<<<"energy-kcal_100g", PyStr("12 kcal")>>, <<"fiber", PyFloat(5)>>>>)}

FilterInit ==
    /\ USER_PROFILE = PyNone
    /\ PROFILE_FILE = Absent
    /\ MainIdle
    /\ \E params \in FilterParams :
          /\ filters = ExtractFilters(params)
          /\ limits = ComputeLimits(ExtractFilters(params))
    /\ cur \in FilterProducts
    /\ spc = "filter"
    /\ total_checked = 0
    /\ filtered_results = 0
    /\ outcome = PyNone

\* `if has_nutrient_filters:` and
\* meets_filters, filter_reason = meets_nutrient_filters(product); with no
\* filter set the product is admitted as it is
ApplyFilter ==
    /\ spc = "filter"
    /\ outcome' = IF HasNutrientFilters(filters, limits)
                  THEN meets_nutrient_filters(cur, filters, limits)
                  ELSE Pass
    /\ spc' = "filtered"
    /\ UNCHANGED <<file_io, analyses, loop, reader, earlier, catalog_requests, USER_PROFILE, PROFILE_FILE, pc, request, response, filters, limits,
                   total_checked, filtered_results, cur>>

FilterNext == ApplyFilter

FilterSpec == FilterInit /\ [][FilterNext]_vars

-----------------------------------------------------------------------------
(* The command loop with a history: any answered call may be kept, so that  *)
(* a later call can be compared with it                                     *)

LifecycleParams ==
    {[NoParams EXCEPT !.profile_name = PyStr("Mine")],
     [NoParams EXCEPT !.allergies = Strs(<<"nuts">>)],
     [NoParams EXCEPT !.dietary_preferences = PyDict(<<<<"vegan", PyBool(TRUE)>>>>)],
     [NoParams EXCEPT !.allergies = Strs(<<"Milk">>),
                      !.intolerances = Strs(<<"Lactose">>),
                      !.nutrient_limits = PyDict(<<<<"sugars_100g", PyInt(10)>>>>)]}

LifecycleProducts ==
    {[NoFields EXCEPT !.ingredients_text = PyStr("contains almond flour")],
     [NoFields EXCEPT !.ingredients_text = PyStr("milk, sugar, wheat flour"),
                      !.nutriments = PyDict(<<<<"sugars_100g", PyFloat(120)>>>>)],
     [NoFields EXCEPT !.ingredients_text = PyStr("water, oat fiber, salt, rice")],
     [NoFields EXCEPT !.labels_tags = Strs(<<"en:Vegan">>)]}

\* the products a lookup finds: those above, one whose nutriments are null,
\* one whose name is a number and one whose brands are a list of numbers
LookupProducts ==
    LifecycleProducts
    \cup {[NoFields EXCEPT !.nutriments = PyNone,
                           !.ingredients_text = PyStr("milk, sugar, wheat flour")],
          [NoFields EXCEPT !.product_name = PyInt(5)],
          [NoFields EXCEPT !.brands = PyList(<<PyInt(1)>>)]}

\* the parameters of a lookup or a search as the caller sends them: None, or
\* a dict kept as its items
LookupParams ==
    {PyNone,
     PyDict(<<>>),
     PyDict(<<<<"product_name", PyStr("bread")>>>>),
     PyDict(<<<<"barcode", PyStr("3017620422003")>>>>),
     PyDict(<<<<"low_fat", PyBool(TRUE)>>, <<"no_nuts", PyBool(TRUE)>>>>)}

\* what the catalog answers to the request of a lookup: no answer in time,
\* another requests.RequestException, a status code other than 200, a body
\* that json.JSONDecodeError refuses, a document with status 0, or a product
CatalogAnswers ==
    {[kind |-> "timeout"], [kind |-> "request error"], [kind |-> "status", code |-> 500],
     [kind |-> "no json"], [kind |-> "json", status |-> 0]}
    \cup {[kind |-> "json", status |-> 1, product |-> product] : product \in LookupProducts}

\* key in params
HasKey(items, key) == \E i \in 1..Len(items) : items[i][1] = key

\* a variant of Missing: only parameters that are None or empty are refused
MissingParams(params, key) == ~Truthy(params)

\* `not params or key not in params`
Missing(params, key) == IF Truthy(params) THEN ~HasKey(params.d, key) ELSE TRUE

\* the last lines of the lookup's message, after the analysis
NutritionAdvice(a) ==
    IF Len(a.warnings) = 0 /\ Len(a.recommendations) = 0 THEN "none"
    ELSE IF ~a.is_safe THEN "This product is NOT RECOMMENDED for your dietary profile."
    ELSE IF Len(a.warnings) > 0 THEN "Please review the warnings above before consuming."
    ELSE "This product appears suitable for your dietary profile."

\* what get_product_nutrition returns once the analysis is made; an
\* exception of the analysis is caught by `except Exception`
NutritionMessage(a) ==
    IF a.raised # "no" THEN [success |-> FALSE, kind |-> "An unexpected error occurred"]
    ELSE [success |-> TRUE, kind |-> "nutrition", warnings |-> a.warnings,
          recommendations |-> a.recommendations, advice |-> NutritionAdvice(a)]

\* the lines of the lookup before the analysis: `nutriments.get(...)` raises
\* AttributeError on nutriments that are no dict, the cleaning of the name
\* TypeError or AttributeError on a name that is no string
LookupRaises(product) ==
    \/ Get(product.nutriments, PyDict(<<>>)).t # "dict"
    \/ CleaningError(product) # "no"

\* the catalog has answered with a product and the analysis is reached
Analysed(answer) ==
    answer.kind = "json" /\ answer.status = 1 /\ ~LookupRaises(answer.product)

\* what get_product_nutrition returns on the catalog's answer
NutritionResponse(profile, answer) ==
    CASE answer.kind = "timeout" ->
            [success |-> FALSE, kind |-> "Request timed out. Please try again."]
      [] answer.kind = "request error" ->
            [success |-> FALSE, kind |-> "Error retrieving product data"]
      [] answer.kind = "status" ->
            [success |-> FALSE, kind |-> "Failed to retrieve product data."]
      [] answer.kind = "no json" ->
            [success |-> FALSE, kind |-> "Failed to parse product data."]
      [] answer.kind = "json" /\ answer.status # 1 ->
            [success |-> FALSE, kind |-> "Product not found."]
      [] answer.kind = "json" /\ answer.status = 1 /\ LookupRaises(answer.product) ->
            [success |-> FALSE, kind |-> "An unexpected error occurred"]
      [] OTHER -> NutritionMessage(analyze_product_safety(profile, answer.product, FALSE))

\* get_product_nutrition(params): without a barcode the failure is returned
\* at once, with one the catalog is asked and its product analysed
GetProductNutrition(params, answer) ==
    /\ pc = "idle"
    /\ request' = [func |-> "get_product_nutrition", params |-> params]
    /\ IF Missing(params, "barcode")
       THEN /\ response' = [success |-> FALSE, kind |-> "Barcode parameter is required."]
            /\ catalog_requests' = 0
            /\ analyses' = NoAnalyses
       ELSE /\ response' = NutritionResponse(USER_PROFILE, answer)
            /\ catalog_requests' = 1
            /\ analyses' = IF Analysed(answer)
                            THEN [count |-> 1, modes |-> {FALSE}]
                            ELSE NoAnalyses
    /\ pc' = "responded"
    /\ UNCHANGED <<USER_PROFILE, PROFILE_FILE, file_io>>
    /\ UNCHANGED searchVars
    /\ UNCHANGED reader
    /\ UNCHANGED loop
    /\ earlier' = Later(earlier)

\* the parameters of a search that carry no product name
NamelessParams == {params \in LookupParams : Missing(params, "product_name")}

\* search_food_product(params) and search_safe_food_only(params) without a
\* product name: the failure is returned at once
SearchWithoutProductName(func, params) ==
    /\ pc = "idle"
    /\ Missing(params, "product_name")
    /\ request' = [func |-> func, params |-> params]
    /\ response' = [success |-> FALSE, kind |-> "Product name parameter is required."]
    /\ catalog_requests' = 0
    /\ pc' = "responded"
    /\ UNCHANGED <<USER_PROFILE, PROFILE_FILE>>
    /\ UNCHANGED searchVars
    /\ UNCHANGED reader
    /\ UNCHANGED loop
    /\ UNCHANGED analyses
    /\ UNCHANGED file_io
    /\ earlier' = Later(earlier)

\* the call just answered is the one kept from now on
Remember ==
    /\ pc = "responded"
    /\ earlier' = [profile |-> USER_PROFILE, request |-> request, response |-> response,
                   since |-> 0]
    /\ UNCHANGED mainVars
    /\ UNCHANGED searchVars
    /\ UNCHANGED reader
    /\ UNCHANGED loop
    /\ UNCHANGED analyses
    /\ UNCHANGED file_io

LifecycleNext ==
    \/ \E params \in LifecycleParams : SetUserProfile(params)
    \/ SetUserProfileNoParams
    \/ ClearUserProfile
    \/ \E written \in SaveOutcomes : SaveUserProfile(written)
    \/ \E removed \in BOOLEAN : RemoveProfileFile(removed)
    \/ \E product \in LifecycleProducts, strict_mode \in BOOLEAN :
          ClassifyProduct(product, strict_mode)
    \/ \E params \in LookupParams, answer \in CatalogAnswers : GetProductNutrition(params, answer)
    \/ \E params \in NamelessParams : SearchWithoutProductName("search_food_product", params)
    \/ \E params \in NamelessParams : SearchWithoutProductName("search_safe_food_only", params)
    \/ WriteResponse
    \/ Remember

LifecycleSpec == Init /\ [][LifecycleNext]_vars

-----------------------------------------------------------------------------
(* analyze_product_safety and set_user_profile line by line. main() handles *)
(* one tool call at a time and starts no thread: while a call runs, no      *)
(* other call starts. analyze_product_safety names the global at each of    *)
(* its reads, so each check is a step; set_user_profile builds              *)
(* parsed_profile and then assigns USER_PROFILE once                         *)

\* reader.at while the function has returned or raised
ReaderDone == NumAnalysisSteps + 1

\* a variant of FreshLocals: the lists of the call before are used on
LeftoverLocals(r) ==
    [is_safe |-> TRUE, warnings |-> r.acc.warnings,
     recommendations |-> r.acc.recommendations, raised |-> "no"]

\* `warnings = []`, `recommendations = []`, `is_safe = True`: the locals of
\* a call are new, whatever the call before has left
FreshLocals(r) == NewAnalysis

\* analyze_product_safety(product, strict_mode) up to its first check:
\* `if USER_PROFILE is None: return True, [], []`, then the locals
ReaderStart(product, strict_mode) ==
    /\ pc = "idle"
    /\ reader.at = 0
    /\ request' = [func |-> "analyze_product_safety", product |-> product,
                   strict_mode |-> strict_mode]
    /\ pc' = "classifying"
    /\ reader' = [at |-> IF USER_PROFILE = PyNone THEN ReaderDone ELSE 1,
                  acc |-> IF USER_PROFILE = PyNone THEN NewAnalysis ELSE FreshLocals(reader),
                  product |-> product, strict_mode |-> strict_mode,
                  prefs |-> PyNone, seen |-> {USER_PROFILE}]
    /\ UNCHANGED <<USER_PROFILE, PROFILE_FILE, response, catalog_requests, loop, analyses,
                   file_io>>
    /\ UNCHANGED searchVars
    /\ UNCHANGED earlier

\* the checks that read the global: allergies, intolerances, nutrient_limits,
\* dietary_preferences and avoid_additives; the vegetarian check and the
\* recommendations use the dietary_prefs the vegan check has read
ReadsGlobal(step) == step \in {1, 2, 3, 4, 6}

\* the profile a check works with
ProfileRead(r, profile) == IF ReadsGlobal(r.at) THEN profile ELSE r.prefs

\* one check made with the profile `read`: `None.get` raises AttributeError,
\* and so does `.lower()` of a text that is no string in the first check
CheckWith(r, read) ==
    IF read = PyNone THEN [r.acc EXCEPT !.raised = "AttributeError"]
    ELSE IF r.at = 1 /\ Get(r.product.ingredients_text, PyStr("")).t # "str"
         THEN [r.acc EXCEPT !.raised = "AttributeError"]
         ELSE AnalysisStep(r.acc, read.d, r.product, r.strict_mode, r.at)

\* the call after a check: an exception ends it
AfterCheck(r, read, acc) ==
    [r EXCEPT !.acc = acc,
              !.at = IF acc.raised # "no" \/ r.at = NumAnalysisSteps THEN ReaderDone ELSE r.at + 1,
              !.prefs = IF r.at = 4 THEN read ELSE @,
              !.seen = IF ReadsGlobal(r.at) THEN @ \cup {read} ELSE @]

\* the next check of the running call
ReaderStep ==
    /\ pc = "classifying"
    /\ reader.at \in 1..NumAnalysisSteps
    /\ reader' = AfterCheck(reader, ProfileRead(reader, USER_PROFILE),
                            CheckWith(reader, ProfileRead(reader, USER_PROFILE)))
    /\ UNCHANGED mainVars
    /\ UNCHANGED searchVars
    /\ UNCHANGED earlier

\* `return is_safe, warnings, recommendations`, or the exception: the caller
\* takes it, and the lists the call has made are left behind
ReaderReturn ==
    /\ pc = "classifying"
    /\ reader.at = ReaderDone
    /\ response' = Verdict(reader.acc)
    /\ pc' = "responded"
    /\ reader' = [at |-> 0, acc |-> reader.acc]
    /\ analyses' = [count |-> 1, modes |-> {reader.strict_mode}]
    /\ earlier' = Later(earlier)
    /\ UNCHANGED <<USER_PROFILE, PROFILE_FILE, request, catalog_requests, loop, file_io>>
    /\ UNCHANGED searchVars

\* the keys set_user_profile parses first
FirstParsed == {"profile_name", "allergies", "intolerances"}

\* a profile dict updated in place, as far as the first keys
UpdatedInPlace(profile, parsed) ==
    PyDict([k \in DOMAIN parsed.d |->
               IF k \in FirstParsed THEN parsed.d[k]
               ELSE IF profile = PyNone THEN Absent ELSE profile.d[k]])

\* a variant of BuildProfile: the keys are assigned to the global's dict as
\* they are parsed
BuildInPlace(params) ==
    /\ pc = "idle"
    /\ request' = [func |-> "set_user_profile", params |-> params]
    /\ pc' = "building"
    /\ USER_PROFILE' = UpdatedInPlace(USER_PROFILE, ParseProfile(params))
    /\ UNCHANGED <<PROFILE_FILE, response, file_io>>
    /\ UNCHANGED searchVars
    /\ UNCHANGED <<reader, loop, analyses, earlier, catalog_requests>>

\* set_user_profile(params) up to the assignment: `parsed_profile = {}` and
\* the seven keys parsed into it; the global is not touched
BuildProfile(params) ==
    /\ pc = "idle"
    /\ request' = [func |-> "set_user_profile", params |-> params]
    /\ pc' = "building"
    /\ UNCHANGED <<USER_PROFILE, PROFILE_FILE, response, file_io>>
    /\ UNCHANGED searchVars
    /\ UNCHANGED <<reader, loop, analyses, earlier, catalog_requests>>

\* `USER_PROFILE = {k: v for k, v in parsed_profile.items() if v is not None}`
InstallProfile ==
    /\ pc = "building"
    /\ USER_PROFILE' = ParseProfile(request.params)
    /\ pc' = "saving"
    /\ UNCHANGED <<PROFILE_FILE, request, response, file_io>>
    /\ UNCHANGED searchVars
    /\ UNCHANGED <<reader, loop, analyses, earlier, catalog_requests>>

StepwiseNext ==
    \/ \E params \in LifecycleParams : BuildProfile(params)
    \/ InstallProfile
    \/ \E written \in SaveOutcomes : SaveUserProfile(written)
    \/ ClearUserProfile
    \/ \E removed \in BOOLEAN : RemoveProfileFile(removed)
    \/ \E product \in LifecycleProducts, strict_mode \in BOOLEAN : ReaderStart(product, strict_mode)
    \/ ReaderStep
    \/ ReaderReturn
    \/ WriteResponse
    \/ Remember

StepwiseSpec == Init /\ [][StepwiseNext]_vars

-----------------------------------------------------------------------------
(* main(): the commands read from the pipe. A command carries a list of     *)
(* tool calls; the loop handles them in turn and writes one response each.  *)
(* An exception no handler catches leaves main(): pc = "raised".            *)

\* the tool calls all commands together carry at most
MaxReceived == 3

\* the tool calls one command carries at most
MaxCalls == 2

KnownFunctions ==
    {"initialize", "search_food_product", "get_product_nutrition", "set_user_profile",
     "get_user_profile", "clear_user_profile", "search_safe_food_only", "shutdown"}

ToolCalls ==
    {[func |-> "initialize"],
     [func |-> "shutdown"],
     [func |-> "restart"],
     [func |-> "get_user_profile"],
     [func |-> "clear_user_profile"],
     [func |-> "set_user_profile", params |-> PyNone],
     [func |-> "set_user_profile", params |-> [NoParams EXCEPT !.allergies = Strs(<<"nuts">>)]],
     [func |-> "set_user_profile",
      params |-> [NoParams EXCEPT !.medical_conditions = PyStr("[\"diabetes\", 2]")]],
     [func |-> "get_product_nutrition", params |-> PyDict(<<>>)],
     [func |-> "search_food_product", params |-> PyNone],
     [func |-> "search_food_product",
      params |-> PyDict(<<<<"product_name", PyStr("bread")>>, <<"no_nuts", PyBool(TRUE)>>>>)],
     [func |-> "search_safe_food_only", params |-> PyNone],
     [func |-> "search_safe_food_only",
      params |-> PyDict(<<<<"product_name", PyStr("bread")>>>>)]}

Commands ==
    UNION {[1..n -> ToolCalls] : n \in 1..MaxCalls}

\* `for tool_call in tool_calls`: the call the loop handles next carries func
Called(func) ==
    /\ pc = "idle"
    /\ loop.inbox # <<>>
    /\ Head(loop.inbox).func = func

\* read_command() returns a command: its tool calls wait to be handled
ReadCommand(tool_calls) ==
    /\ pc = "idle"
    /\ loop.inbox = <<>>
    /\ Len(loop.received) + Len(tool_calls) <= MaxReceived
    /\ loop' = [loop EXCEPT !.inbox = tool_calls, !.received = @ \o tool_calls]
    /\ UNCHANGED <<USER_PROFILE, PROFILE_FILE, pc, request, response, catalog_requests>>
    /\ UNCHANGED searchVars
    /\ UNCHANGED <<reader, earlier, analyses, file_io>>

\* read_command() returns None: the failure is answered, the loop continues
ReadFails ==
    /\ pc = "idle"
    /\ loop.inbox = <<>>
    /\ request' = NoRequest
    /\ response' = [success |-> FALSE, kind |-> "Failed to parse command"]
    /\ pc' = "responded"
    /\ UNCHANGED <<USER_PROFILE, PROFILE_FILE, catalog_requests>>
    /\ UNCHANGED searchVars
    /\ UNCHANGED <<reader, earlier, loop, analyses, file_io>>

\* a call answered by main() itself: initialize, shutdown, and any name it
\* does not know
AnsweredByMain(call, success, kind) ==
    /\ pc = "idle"
    /\ request' = call
    /\ response' = [success |-> success, kind |-> kind]
    /\ pc' = "responded"
    /\ UNCHANGED <<USER_PROFILE, PROFILE_FILE, catalog_requests>>
    /\ UNCHANGED searchVars
    /\ UNCHANGED <<reader, loop, analyses, file_io>>
    /\ earlier' = Later(earlier)

Initialize == AnsweredByMain([func |-> "initialize"], TRUE, "DietCheck plugin initialized")

Shutdown == AnsweredByMain([func |-> "shutdown"], TRUE, "DietCheck plugin shutdown")

UnknownFunction(call) == AnsweredByMain(call, FALSE, "Unknown function call")

\* `', '.join(value)` goes through: the value is iterable and yields strings
Joinable(v) ==
    CASE v.t \in {"list", "tuple"} -> \A i \in 1..Len(v.l) : v.l[i].t = "str"
      [] v.t \in {"str", "dict"} -> TRUE
      [] OTHER -> FALSE

\* active_prefs: the keys of the preferences whose value is true
RECURSIVE ActivePrefs(_)
ActivePrefs(items) ==
    IF Len(items) = 0 THEN <<>>
    ELSE (IF Truthy(items[1][2]) THEN <<PyStr(items[1][1])>> ELSE <<>>)
         \o ActivePrefs(Tail(items))

\* what a section joins: the value itself, the active preferences, or one
\* text for each nutrient limit
Joined(v, name) ==
    IF name = "Dietary Preferences"
    THEN (IF v.t = "dict" THEN PyList(ActivePrefs(v.d)) ELSE PyList(<<>>))
    ELSE IF name = "Nutrient Limits"
    THEN (IF v.t = "dict" THEN PyList([i \in 1..Len(v.d) |-> PyStr(v.d[i][1])])
          ELSE PyList(<<>>))
    ELSE v

\* the sections of the summary get_user_profile joins, in its order: the
\* value, the type the code asks of it ("any" where it asks for none) and
\* what is joined
Section(name, v, type) == [name |-> name, value |-> v, type |-> type, joined |-> Joined(v, name)]
SummarySections(p) ==
    <<Section("Allergies", Get(p.allergies, PyList(<<>>)), "any"),
      Section("Intolerances", Get(p.intolerances, PyList(<<>>)), "any"),
      Section("Medical Conditions", Get(p.medical_conditions, PyList(<<>>)), "any"),
      Section("Dietary Preferences", Get(p.dietary_preferences, PyDict(<<>>)), "dict"),
      Section("Avoid Additives", Get(p.avoid_additives, PyList(<<>>)), "list"),
      Section("Nutrient Limits", Get(p.nutrient_limits, PyDict(<<>>)), "dict")>>

\* the section is written: its value is truthy and of the type the code
\* asks for, and there is something to join
SectionWritten(section) ==
    /\ Truthy(section.value)
    /\ section.type # "any" => section.value.t = section.type
    /\ Truthy(section.joined)

\* get_user_profile raises TypeError: a section it writes is not joinable
SummaryRaises(p) ==
    \E i \in 1..Len(SummarySections(p)) :
        SectionWritten(SummarySections(p)[i]) /\ ~Joinable(SummarySections(p)[i].joined)

\* what get_user_profile returns
ProfileSummary(profile) ==
    IF profile = PyNone
    THEN [success |-> TRUE, kind |-> "No user profile is currently set."]
    ELSE [success |-> TRUE, kind |-> "Current Profile",
          sections |-> {SummarySections(profile.d)[i].name :
                           i \in {j \in 1..Len(SummarySections(profile.d)) :
                                     SectionWritten(SummarySections(profile.d)[j])}},
          profile_data |-> profile]

\* get_user_profile(): the summary of the active profile; nothing catches
\* the TypeError of a join, which leaves main() with the call unanswered
GetUserProfile ==
    /\ pc = "idle"
    /\ request' = [func |-> "get_user_profile"]
    /\ IF USER_PROFILE # PyNone /\ SummaryRaises(USER_PROFILE.d)
       THEN /\ response' = NoResponse
            /\ pc' = "raised"
       ELSE /\ response' = ProfileSummary(USER_PROFILE)
            /\ pc' = "responded"
    /\ UNCHANGED <<USER_PROFILE, PROFILE_FILE, catalog_requests>>
    /\ UNCHANGED searchVars
    /\ UNCHANGED <<reader, loop, analyses, file_io>>
    /\ earlier' = Later(earlier)

-----------------------------------------------------------------------------
(* search_safe_food_only: the diet-specific search, then the general one.   *)
(* Every candidate is analysed in strict mode and listed only when it is    *)
(* safe without a warning.                                                  *)

\* `vegan_products[:10]` and `vegetarian_products[:10]`
DietSlice == 10

\* `if len(safe_products) >= 10: break`
MaxSafeResults == 10

\* `if len(safe_products) < 5`: the general search is made
EnoughSafe == 5

\* `products[:20]`
GeneralSlice == 20

\* `if total_checked >= 20: break`
MaxSafeChecked == 20

Run(product, n) == [i \in 1..n |-> product]

LabeledVegan ==
    [NoFields EXCEPT !.labels = PyStr("Organic, Vegan, Vegetarian"),
                     !.labels_tags = Strs(<<"en:vegan", "en:vegetarian">>),
                     !.ingredients_text = PyStr("water, oat fiber, salt, rice")]

LabeledVeganWithNuts ==
    [LabeledVegan EXCEPT !.ingredients_text = PyStr("contains almond flour")]

Unlabeled == [NoFields EXCEPT !.ingredients_text = PyStr("water, oat fiber, salt, rice")]

UnlabeledWithNuts == [NoFields EXCEPT !.ingredients_text = PyStr("contains almond flour")]

NullIngredients == [NoFields EXCEPT !.ingredients_text = PyNone]

\* what the catalog answers to the first request of the diet-specific search
DietAnswers ==
    {[kind |-> "timeout"],
     [kind |-> "json", products |-> <<>>],
     [kind |-> "json", products |-> Run(Unlabeled, 3)],
     [kind |-> "json", products |-> Run(LabeledVegan, 3)],
     [kind |-> "json", products |-> Run(LabeledVeganWithNuts, 2) \o Run(LabeledVegan, 1)],
     [kind |-> "json", products |-> Run(LabeledVegan, 12)],
     [kind |-> "json", products |-> Run(LabeledVeganWithNuts, 12)],
     [kind |-> "json", products |-> Run(LabeledVegan, 4) \o Run(LabeledVeganWithNuts, 8)],
     [kind |-> "json", products |-> Run(LabeledVeganWithNuts, 7) \o Run(LabeledVegan, 5)],
     [kind |-> "json", products |-> Run(LabeledVegan, 9) \o Run(LabeledVeganWithNuts, 3)]}

\* what it answers to the second, the label URL
LabelAnswers ==
    {[kind |-> "status", code |-> 500],
     [kind |-> "json", products |-> Run(LabeledVegan, 6)]}

\* what it answers to the general search
GeneralAnswers ==
    {[kind |-> "timeout"],
     [kind |-> "status", code |-> 500],
     [kind |-> "json", products |-> <<>>],
     [kind |-> "json", products |-> Run(Unlabeled, 25)],
     [kind |-> "json", products |-> Run(LabeledVegan, 25)],
     [kind |-> "json", products |-> Run(UnlabeledWithNuts, 25)],
     [kind |-> "json", products |-> Run(UnlabeledWithNuts, 12) \o Run(LabeledVegan, 12)],
     [kind |-> "json", products |-> Run(LabeledVegan, 2)],
     [kind |-> "json", products |-> Run(UnlabeledWithNuts, 17) \o Run(LabeledVegan, 8)],
     [kind |-> "json", products |-> Run(LabeledVegan, 7) \o Run(UnlabeledWithNuts, 1)],
     [kind |-> "json", products |-> Run(UnlabeledWithNuts, 21) \o Run(LabeledVegan, 1)],
     [kind |-> "json", products |-> Run(UnlabeledWithNuts, 5) \o Run(Unlabeled, 3)],
     [kind |-> "json", products |-> <<LabeledVegan, NullIngredients, LabeledVegan>>]}

SafeSearchParams ==
    {PyNone,
     PyDict(<<<<"barcode", PyStr("3017620422003")>>>>),
     PyDict(<<<<"product_name", PyStr("oat bread")>>>>),
     PyDict(<<<<"product_name", PyStr("rice")>>, <<"low_fat", PyBool(TRUE)>>>>),
     PyDict(<<<<"product_name", PyInt(5)>>>>)}

SafeSearchProfiles ==
    {[NoParams EXCEPT !.allergies = Strs(<<"nuts">>)],
     [NoParams EXCEPT !.allergies = Strs(<<"nuts">>),
                      !.dietary_preferences = PyDict(<<<<"vegan", PyBool(TRUE)>>>>)],
     [NoParams EXCEPT !.dietary_preferences = PyDict(<<<<"vegan", PyBool(TRUE)>>>>)],
     [NoParams EXCEPT !.dietary_preferences =
                          PyDict(<<<<"vegan", PyBool(FALSE)>>, <<"vegetarian", PyBool(TRUE)>>>>)],
     [NoParams EXCEPT !.medical_conditions = PyStr("[\"diabetes\", 2]"),
                      !.intolerances = PyStr("[1]")]}

\* the products of an answer, none unless the status is 200
ProductsOf(answer) == IF answer.kind = "json" THEN answer.products ELSE <<>>

\* `product.get('labels', '').lower()` raises: the labels are no string
LabelsRaise(products) ==
    \E i \in 1..Len(products) : Get(products[i].labels, PyStr("")).t # "str"

\* the products with the diet in their labels
WithLabel(products, label) ==
    SelectSeq(products, LAMBDA product : StrIn(label, StrLower(Get(product.labels, PyStr("")).s)))

\* search_vegan_products and search_vegetarian_products: the labelled
\* products of the first answer, else of the second, and none after any
\* exception
DietProducts(product_name, first, second, label) ==
    IF product_name.t # "str" \/ first.kind = "timeout" \/ LabelsRaise(ProductsOf(first))
    THEN <<>>
    ELSE IF WithLabel(ProductsOf(first), label) # <<>> THEN WithLabel(ProductsOf(first), label)
    ELSE IF second.kind = "timeout" \/ LabelsRaise(ProductsOf(second)) THEN <<>>
    ELSE WithLabel(ProductsOf(second), label)

\* the requests.get calls the diet-specific search makes
DietRequests(product_name, first, label) ==
    IF product_name.t # "str" THEN 0
    ELSE IF first.kind = "timeout" \/ LabelsRaise(ProductsOf(first)) THEN 1
    ELSE IF WithLabel(ProductsOf(first), label) # <<>> THEN 1
    ELSE 2

\* the locals of search_safe_food_only before the first candidate
NewSafeSearch == [total_checked |-> 0, safe_products |-> 0, modes |-> {}, raised |-> "no"]

\* one candidate: counted, analysed with strict_mode, and appended to
\* safe_products when the analysis finds it safe without a warning
Checked(frame, strict_mode, a) ==
    [total_checked |-> frame.total_checked + 1,
     safe_products |-> IF a.raised = "no" /\ a.is_safe /\ a.warnings = <<>>
                       THEN frame.safe_products + 1
                       ELSE frame.safe_products,
     modes |-> frame.modes \cup {strict_mode},
     raised |-> a.raised]

\* a variant of CheckedEnough: the general search goes through its whole slice
NeverCheckedEnough(checked) == FALSE

\* `if total_checked >= 20: break`
CheckedEnough(checked) == checked >= MaxSafeChecked

RECURSIVE CheckFrom(_, _, _, _, _, _), AfterCandidate(_, _, _, _, _, _, _)

\* the loop from candidates[i] to candidates[last]; the general search
\* tests total_checked first
CheckFrom(profile, candidates, i, last, general, frame) ==
    IF i > last THEN frame
    ELSE IF general /\ CheckedEnough(frame.total_checked) THEN frame
    ELSE AfterCandidate(profile, candidates, i, last, general, frame.safe_products,
                        Checked(frame, TRUE,
                                AnalysedThenCleaned(
                                    analyze_product_safety(profile, candidates[i], TRUE),
                                    CleaningError(candidates[i]))))

\* after one candidate: an exception ends the loop, and so does the tenth
\* product appended
AfterCandidate(profile, candidates, i, last, general, before, frame) ==
    IF frame.raised # "no" THEN frame
    ELSE IF frame.safe_products > before /\ frame.safe_products >= MaxSafeResults THEN frame
    ELSE CheckFrom(profile, candidates, i + 1, last, general, frame)

Smaller(a, b) == IF a < b THEN a ELSE b

\* the diet-specific search: the first DietSlice labelled products
DietSearch(profile, candidates) ==
    CheckFrom(profile, candidates, 1, Smaller(Len(candidates), DietSlice), FALSE, NewSafeSearch)

\* the general search over the first GeneralSlice products of the answer; a
\* product_name that is no string has no `replace`
GeneralSearch(profile, product_name, answer, frame) ==
    IF product_name.t # "str" THEN [frame EXCEPT !.raised = "AttributeError"]
    ELSE CheckFrom(profile, ProductsOf(answer), 1,
                   Smaller(Len(ProductsOf(answer)), GeneralSlice), TRUE, frame)

\* the message names the allergies and intolerances of the profile: a list
\* with an item that is no string raises TypeError
MessageRaises(p) ==
    \/ Truthy(Get(p.allergies, PyList(<<>>))) /\ ~Joinable(Get(p.allergies, PyList(<<>>)))
    \/ Truthy(Get(p.intolerances, PyList(<<>>))) /\ ~Joinable(Get(p.intolerances, PyList(<<>>)))

\* what search_safe_food_only returns after its searches, or the exception
SafeSearchResult(p, general, frame, requests) ==
    IF frame.raised # "no"
    THEN [raised |-> frame.raised, frame |-> frame, requests |-> requests,
          response |-> NoResponse]
    ELSE IF frame.safe_products < EnoughSafe /\ general.kind = "timeout"
    THEN [raised |-> "no", frame |-> frame, requests |-> requests,
          response |-> [success |-> FALSE, kind |-> "Error searching for products"]]
    ELSE IF MessageRaises(p)
    THEN [raised |-> "TypeError", frame |-> frame, requests |-> requests,
          response |-> NoResponse]
    ELSE IF frame.safe_products = 0
    THEN [raised |-> "no", frame |-> frame, requests |-> requests,
          response |-> [success |-> TRUE, kind |-> "No completely safe products found",
                        checked |-> frame.total_checked]]
    ELSE [raised |-> "no", frame |-> frame, requests |-> requests,
          response |-> [success |-> TRUE, kind |-> "Found SAFE products",
                        listed |-> frame.safe_products, checked |-> frame.total_checked,
                        first_ten |-> (frame.safe_products = MaxSafeResults)]]

\* the general search is made when the diet-specific one left fewer than
\* EnoughSafe products
AfterDietSearch(p, product_name, general, frame, requests) ==
    IF frame.raised = "no" /\ frame.safe_products < EnoughSafe
    THEN SafeSearchResult(p, general, GeneralSearch(PyDict(p), product_name, general, frame),
                          IF product_name.t = "str" THEN requests + 1 ELSE requests)
    ELSE SafeSearchResult(p, general, frame, requests)

\* the diet of the diet-specific search: vegan before vegetarian
DietLabel(prefs) ==
    IF Truthy(DictGet(prefs, "vegan", PyBool(FALSE))) THEN "vegan"
    ELSE IF Truthy(DictGet(prefs, "vegetarian", PyBool(FALSE))) THEN "vegetarian"
    ELSE "none"

\* search_safe_food_only with a product name and a profile
SafeSearchWith(p, product_name, first, second, general, label) ==
    IF label = "none"
    THEN AfterDietSearch(p, product_name, general, NewSafeSearch, 0)
    ELSE AfterDietSearch(p, product_name, general,
                         DietSearch(PyDict(p), DietProducts(product_name, first, second, label)),
                         DietRequests(product_name, first, label))

Unsearched(success, kind) ==
    [raised |-> "no", frame |-> NewSafeSearch, requests |-> 0,
     response |-> [success |-> success, kind |-> kind]]

search_safe_food_only(profile, params, first, second, general) ==
    IF Missing(params, "product_name")
    THEN Unsearched(FALSE, "Product name parameter is required.")
    ELSE IF profile = PyNone THEN Unsearched(FALSE, "No dietary profile set.")
    ELSE IF Get(profile.d.dietary_preferences, PyDict(<<>>)).t # "dict"
    THEN [Unsearched(FALSE, "none") EXCEPT !.raised = "AttributeError", !.response = NoResponse]
    ELSE SafeSearchWith(profile.d, DictGet(params.d, "product_name", PyNone), first, second,
                        general, DietLabel(Get(profile.d.dietary_preferences, PyDict(<<>>)).d))

\* the handler has returned `result`, or its exception has left main()
SafeSearchAnswered(params, result) ==
    /\ pc = "idle"
    /\ request' = [func |-> "search_safe_food_only", params |-> params]
    /\ response' = result.response
    /\ pc' = IF result.raised = "no" THEN "responded" ELSE "raised"
    /\ catalog_requests' = result.requests
    /\ UNCHANGED file_io
    /\ analyses' = [count |-> result.frame.total_checked, modes |-> result.frame.modes]
    /\ UNCHANGED <<USER_PROFILE, PROFILE_FILE>>
    /\ UNCHANGED searchVars
    /\ UNCHANGED <<reader, loop>>
    /\ earlier' = Later(earlier)

\* search_safe_food_only(params), with what the catalog answers
SearchSafeFoodOnly(params, first, second, general) ==
    SafeSearchAnswered(params, search_safe_food_only(USER_PROFILE, params, first, second, general))

\* a start of the plugin over the document of one of the profiles, or over
\* no file
SafeSearchInit ==
    \E file \in {Absent} \cup {SavedDocument(ParseProfile(params)) : params \in SafeSearchProfiles} :
        Start(file)

SafeSearchNext ==
    \/ \E params \in SafeSearchParams, first \in DietAnswers, second \in LabelAnswers,
          general \in GeneralAnswers : SearchSafeFoodOnly(params, first, second, general)
    \/ WriteResponse

SafeSearchSpec == SafeSearchInit /\ [][SafeSearchNext]_vars

-----------------------------------------------------------------------------
(* search_food_product as one call of main(): from the parameters and the   *)
(* catalog's answer to the response                                          *)

\* the locals of search_food_product before the first product
NewSearch == [total_checked |-> 0, filtered_results |-> 0, analysed |-> 0, raised |-> "no"]

\* the iteration reaches analyze_product_safety: the filter has admitted
\* the product, and its name and brand are cleaned
ReachesAnalysis(product, f, lim) ==
    /\ (IF HasNutrientFilters(f, lim) THEN meets_nutrient_filters(product, f, lim)
        ELSE Pass).r = "pass"
    /\ CleaningError(product) = "no"

\* the locals after one iteration
Inspected(frame, judged, analysed) ==
    [total_checked |-> frame.total_checked + 1,
     filtered_results |-> IF judged.kind = "admitted" THEN frame.filtered_results + 1
                          ELSE frame.filtered_results,
     analysed |-> IF analysed THEN frame.analysed + 1 ELSE frame.analysed,
     raised |-> IF judged.kind = "raised" THEN judged.error ELSE "no"]

RECURSIVE SearchFrom(_, _, _, _, _, _), AfterProduct(_, _, _, _, _, _, _)

\* `for i, product in enumerate(products, 1)` from products[i] on
SearchFrom(profile, products, f, lim, i, frame) ==
    IF i > Len(products) THEN frame
    ELSE AfterProduct(profile, products, f, lim, i, Judge(profile, products[i], f, lim).kind,
                      Inspected(frame, Judge(profile, products[i], f, lim),
                                ReachesAnalysis(products[i], f, lim)))

\* after one product: an exception ends the loop, and so does the test at
\* the end of the body
AfterProduct(profile, products, f, lim, i, kind, frame) ==
    IF frame.raised # "no" THEN frame
    ELSE IF LeavesLoop(kind, frame.filtered_results, frame.total_checked) THEN frame
    ELSE SearchFrom(profile, products, f, lim, i + 1, frame)

\* what the handler returns after the loop
Searched(frame) ==
    [raised |-> "no", frame |-> frame, requests |-> 1,
     response |-> IF frame.raised # "no"
                  THEN [success |-> FALSE, kind |-> "An unexpected error occurred"]
                  ELSE SearchResponse(frame.filtered_results)]

\* the parameters as the handler reads them with params.get
SearchFields(params) == [k \in DOMAIN NoSearchParams |-> DictGet(params.d, k, Absent)]

\* the handler returns, or raises, before its loop
BeforeLoop(raised, requests, returned) ==
    [raised |-> raised, frame |-> NewSearch, requests |-> requests, response |-> returned]

search_food_product(profile, params, answer) ==
    IF Missing(params, "product_name")
    THEN BeforeLoop("no", 0, [success |-> FALSE, kind |-> "Product name parameter is required."])
    ELSE IF DictGet(params.d, "product_name", PyNone).t # "str"
    THEN BeforeLoop("AttributeError", 0, NoResponse)
    ELSE IF answer.kind # "json" THEN BeforeLoop("no", 1, SearchFailure(answer))
    ELSE Searched(SearchFrom(profile, answer.products,
                             ExtractFilters(SearchFields(params)),
                             ComputeLimits(ExtractFilters(SearchFields(params))),
                             1, NewSearch))

\* search_food_product(params), with what the catalog answers: the handler
\* returns the result, or its exception leaves main()
FoodSearchAnswered(params, result) ==
    /\ pc = "idle"
    /\ request' = [func |-> "search_food_product", params |-> params]
    /\ response' = result.response
    /\ pc' = IF result.raised = "no" THEN "responded" ELSE "raised"
    /\ catalog_requests' = result.requests
    /\ analyses' = [count |-> result.frame.analysed,
                    modes |-> IF result.frame.analysed > 0 THEN {FALSE} ELSE {}]
    /\ UNCHANGED <<USER_PROFILE, PROFILE_FILE, file_io>>
    /\ UNCHANGED searchVars
    /\ UNCHANGED <<reader, loop>>
    /\ earlier' = Later(earlier)

SearchFoodProduct(params, answer) ==
    FoodSearchAnswered(params, search_food_product(USER_PROFILE, params, answer))

\* what the catalog answers to the searches of the command loop
FoundProducts ==
    {[kind |-> "timeout"],
     [kind |-> "json", products |-> <<>>],
     [kind |-> "json", products |-> Run(Unlabeled, 2)],
     [kind |-> "json", products |-> <<UnlabeledWithNuts, NullIngredients, Unlabeled>>]}

CommandNext ==
    \/ \E tool_calls \in Commands : ReadCommand(tool_calls)
    \/ ReadFails
    \/ Called("initialize") /\ Initialize
    \/ Called("shutdown") /\ Shutdown
    \/ Called("set_user_profile") /\ Head(loop.inbox).params # PyNone
          /\ SetUserProfile(Head(loop.inbox).params)
    \/ Called("set_user_profile") /\ Head(loop.inbox).params = PyNone /\ SetUserProfileNoParams
    \/ Called("get_user_profile") /\ GetUserProfile
    \/ Called("clear_user_profile") /\ ClearUserProfile
    \/ \E written \in SaveOutcomes : SaveUserProfile(written)
    \/ \E removed \in BOOLEAN : RemoveProfileFile(removed)
    \/ Called("get_product_nutrition")
          /\ \E answer \in CatalogAnswers : GetProductNutrition(Head(loop.inbox).params, answer)
    \/ Called("search_food_product")
          /\ \E answer \in FoundProducts : SearchFoodProduct(Head(loop.inbox).params, answer)
    \/ Called("search_safe_food_only")
          /\ \E general \in FoundProducts :
                SearchSafeFoodOnly(Head(loop.inbox).params, [kind |-> "timeout"],
                                   [kind |-> "timeout"], general)
    \/ pc = "idle" /\ loop.inbox # <<>> /\ Head(loop.inbox).func \notin KnownFunctions
          /\ UnknownFunction(Head(loop.inbox))
    \/ WriteResponse

CommandSpec == Init /\ [][CommandNext]_vars

-----------------------------------------------------------------------------
(* Properties of analyze_product_safety, read off the answer to one call    *)

\* a call of analyze_product_safety has been answered
Classified == pc = "responded" /\ request.func = "analyze_product_safety"

\* ... with a profile active and the tuple (is_safe, warnings, recommendations)
Returned == Classified /\ USER_PROFILE # PyNone /\ response.kind = "verdict"

InSeq(x, s) == \E i \in 1..Len(s) : s[i] = x
StartsWith(s, prefix) == Len(s) >= Len(prefix) /\ SubSeq(s, 1, Len(prefix)) = prefix

ProfileList(field) == Get(field, PyList(<<>>)).l

\* C1: with no profile active, analyze_product_safety returns is_safe = true,
\* no warning and no recommendation, for every record and both modes.
C1_NoProfileIsSafe ==
    (Classified /\ USER_PROFILE = PyNone) =>
        response = [success |-> TRUE, kind |-> "verdict", is_safe |-> TRUE,
                    warnings |-> <<>>, recommendations |-> <<>>]

\* a strict call without a profile on a record whose text names almonds
C1_Witness ==
    /\ Classified
    /\ USER_PROFILE = PyNone
    /\ request.strict_mode
    /\ request.product.ingredients_text = PyStr("contains almond flour")
    /\ response.kind = "verdict"

\* C2: whenever the call returns, every allergy of the profile that matches
\* the record has its allergy warning among the warnings, and is_safe is
\* false, in strict and in lenient mode.
C2_AllergyIsUnsafe ==
    Returned =>
        \A i \in 1..Len(ProfileList(USER_PROFILE.d.allergies)) :
            AllergyMatches(request.product, ProfileList(USER_PROFILE.d.allergies)[i]) =>
                /\ response.is_safe = FALSE
                /\ InSeq(AllergyWarning(ProfileList(USER_PROFILE.d.allergies)[i]),
                         response.warnings)

\* the spec's own case in lenient mode: allergy "nuts", text "contains almond flour"
C2_Witness ==
    /\ Returned
    /\ ~request.strict_mode
    /\ request.product.ingredients_text = PyStr("contains almond flour")
    /\ InSeq(PyStr("nuts"), ProfileList(USER_PROFILE.d.allergies))
    /\ InSeq("ALLERGY WARNING: Contains nuts", response.warnings)
    /\ ~response.is_safe

\* the entries of the profile's nutrient limits the record violates
ViolatedLimits ==
    LET nutrient_limits == Get(USER_PROFILE.d.nutrient_limits, PyDict(<<>>)).d
        nutriments == Get(request.product.nutriments, PyDict(<<>>)).d
    IN {i \in 1..Len(nutrient_limits) :
           LimitViolated(LimitValue(nutriments, nutrient_limits[i][1]), nutrient_limits[i][2])}

\* C3: whenever a nutrient limit of the profile is violated, the call returns
\* is_safe = false, in lenient mode too.
C3_LimitIsUnsafe == (Returned /\ ViolatedLimits # {}) => response.is_safe = FALSE

\* a lenient call that warns of a violated limit and still answers is_safe = true
C3_Witness ==
    /\ Returned
    /\ ~request.strict_mode
    /\ ViolatedLimits # {}
    /\ InSeq("HIGH SUGARS: 12.0g (limit: 10g)", response.warnings)
    /\ response.is_safe

\* the intolerances and the avoided additives of the profile the record matches
MatchedIntolerances ==
    {i \in 1..Len(ProfileList(USER_PROFILE.d.intolerances)) :
        IntoleranceMatches(request.product, ProfileList(USER_PROFILE.d.intolerances)[i])}
MatchedAdditives ==
    {i \in 1..Len(ProfileList(USER_PROFILE.d.avoid_additives)) :
        AdditiveMatches(request.product, ProfileList(USER_PROFILE.d.avoid_additives)[i])}

\* the warning is one of an intolerance or of an avoided additive
IsAdvisoryWarning(w) ==
    StartsWith(w, "INTOLERANCE WARNING: ") \/ StartsWith(w, "CONTAINS AVOIDED ADDITIVE: ")

\* C4: whenever the call returns, every matching intolerance and every
\* matching avoided additive has its warning; in strict mode such a match
\* makes is_safe false; in lenient mode a record whose only warnings are of
\* these two kinds is returned with is_safe = true and the warnings.
C4_IntoleranceAndAdditiveAdvisory ==
    Returned =>
        /\ \A i \in MatchedIntolerances :
              InSeq(IntoleranceWarning(ProfileList(USER_PROFILE.d.intolerances)[i]),
                    response.warnings)
        /\ \A i \in MatchedAdditives :
              InSeq(AdditiveWarning(ProfileList(USER_PROFILE.d.avoid_additives)[i]),
                    response.warnings)
        /\ (request.strict_mode /\ (MatchedIntolerances # {} \/ MatchedAdditives # {}))
              => response.is_safe = FALSE
        /\ (/\ ~request.strict_mode
            /\ MatchedIntolerances # {} \/ MatchedAdditives # {}
            /\ \A k \in 1..Len(response.warnings) : IsAdvisoryWarning(response.warnings[k]))
              => response.is_safe = TRUE /\ response.warnings # <<>>

\* a lenient call whose only finding is the intolerance: safe, with the warning
C4_Witness ==
    /\ Returned
    /\ ~request.strict_mode
    /\ MatchedIntolerances # {}
    /\ response.warnings = <<"INTOLERANCE WARNING: May contain Lactose">>
    /\ response.is_safe

\* a warning check_diet_status appends for the diet
IsDietWarning(w, diet_type) ==
    \/ StartsWith(w, StrUpper(diet_type) \o " STATUS UNKNOWN: ")
    \/ StartsWith(w, "NOT " \o StrUpper(diet_type) \o ": ")

\* C5 for one diet: with the preference enabled and check_diet_status
\* answering non-compliant, is_safe is false; with the preference not
\* enabled, no warning of the diet check is among the warnings.
DietPreferenceDecides(diet_type, non_diet_indicators) ==
    /\ (/\ Preference(USER_PROFILE.d, diet_type)
        /\ ~check_diet_status(request.product, diet_type, non_diet_indicators,
                              request.strict_mode).ok)
          => response.is_safe = FALSE
    /\ ~Preference(USER_PROFILE.d, diet_type)
          => \A k \in 1..Len(response.warnings) : ~IsDietWarning(response.warnings[k], diet_type)

\* C5: whenever the call returns, an enabled vegan (vegetarian) preference
\* with a non-compliant diet status makes is_safe false in both modes, and a
\* preference that is not enabled adds no warning of the diet check.
C5_DietPreferenceIsUnsafe ==
    Returned =>
        /\ DietPreferenceDecides("vegan", non_vegan_indicators)
        /\ DietPreferenceDecides("vegetarian", non_vegetarian_indicators)

\* the vegan preference alone, lenient mode, a record with milk: not safe
C5_Witness ==
    /\ Returned
    /\ ~request.strict_mode
    /\ Preference(USER_PROFILE.d, "vegan")
    /\ ~Preference(USER_PROFILE.d, "vegetarian")
    /\ request.product.ingredients_text = PyStr("milk, sugar, wheat flour")
    /\ response.warnings = <<"NOT VEGAN: Contains milk">>
    /\ ~response.is_safe

\* C6 for one diet: the lower-cased text holds "<diet> status unknown"
DisclosureDecides(diet_type, non_diet_indicators) ==
    StrIn(diet_type \o " status unknown",
          StrLower(Get(request.product.ingredients_text, PyStr("")).s))
      => /\ check_diet_status(request.product, diet_type, non_diet_indicators,
                              request.strict_mode)
              = [ok |-> FALSE,
                 warnings |-> <<StrUpper(diet_type)
                                \o " STATUS UNKNOWN: Product explicitly states unknown "
                                \o diet_type \o " status">>]
         /\ Preference(USER_PROFILE.d, diet_type)
               => /\ response.is_safe = FALSE
                  /\ InSeq(StrUpper(diet_type)
                           \o " STATUS UNKNOWN: Product explicitly states unknown "
                           \o diet_type \o " status", response.warnings)

\* C6: a text that holds "<diet> status unknown" makes check_diet_status
\* answer non-compliant with the STATUS UNKNOWN warning, in both modes, also
\* for a record that carries a label tag naming the diet.
C6_DisclosureBeatsLabel ==
    Returned =>
        /\ DisclosureDecides("vegan", non_vegan_indicators)
        /\ DisclosureDecides("vegetarian", non_vegetarian_indicators)

\* a record labelled en:Vegan whose text says "vegan status unknown"
C6_Witness ==
    /\ Returned
    /\ Preference(USER_PROFILE.d, "vegan")
    /\ IsExplicitlyLabeled(request.product, "vegan")
    /\ request.product.ingredients_text = PyStr("Sugar, vegan status unknown")
    /\ ~response.is_safe
    /\ InSeq("VEGAN STATUS UNKNOWN: Product explicitly states unknown vegan status",
             response.warnings)

\* the record gives the diet check nothing to go on: no label tag of the
\* diet, no indicator in the text, a text that is empty or under 20 characters
InsufficientFor(diet_type, non_diet_indicators) ==
    LET text == Get(request.product.ingredients_text, PyStr("")).s
        labels == Get(request.product.labels_tags, PyList(<<>>)).l
    IN /\ \A i \in 1..Len(labels) : ~StrIn(diet_type, StrLower(labels[i].s))
       /\ \A i \in 1..Len(non_diet_indicators) : ~StrIn(non_diet_indicators[i], StrLower(text))
       /\ Len(text) < 20

IsInsufficiencyWarning(w, diet_type) ==
    StartsWith(w, StrUpper(diet_type) \o " STATUS UNKNOWN: Insufficient ingredient information")

\* C7 for one diet
InsufficiencyDecides(diet_type, non_diet_indicators) ==
    InsufficientFor(diet_type, non_diet_indicators) =>
        /\ check_diet_status(request.product, diet_type, non_diet_indicators,
                             request.strict_mode).ok = ~request.strict_mode
        /\ Len(check_diet_status(request.product, diet_type, non_diet_indicators,
                                 request.strict_mode).warnings) = 1
        /\ Preference(USER_PROFILE.d, diet_type) =>
              /\ \E k \in 1..Len(response.warnings) :
                    IsInsufficiencyWarning(response.warnings[k], diet_type)
              /\ request.strict_mode => response.is_safe = FALSE
              /\ (/\ ~request.strict_mode
                  /\ \A k \in 1..Len(response.warnings) :
                        \/ IsInsufficiencyWarning(response.warnings[k], "vegan")
                        \/ IsInsufficiencyWarning(response.warnings[k], "vegetarian"))
                    => response.is_safe = TRUE

\* C7: with no label tag of the diet, no indicator in the text and a text
\* that is empty or shorter than 20 characters, check_diet_status appends the
\* insufficient-information warning and answers non-compliant in strict mode
\* and compliant in lenient mode, so that a lenient call with no other
\* finding returns is_safe = true with the warning.
C7_InsufficiencyFollowsMode ==
    Returned =>
        /\ InsufficiencyDecides("vegan", non_vegan_indicators)
        /\ InsufficiencyDecides("vegetarian", non_vegetarian_indicators)

\* the vegan preference, a record whose text is "rice": strict mode answers
\* not safe with the warning
C7_Witness ==
    /\ Returned
    /\ request.strict_mode
    /\ Preference(USER_PROFILE.d, "vegan")
    /\ request.product.ingredients_text = PyStr("rice")
    /\ InsufficientFor("vegan", non_vegan_indicators)
    /\ response.warnings
         = <<"VEGAN STATUS UNKNOWN: Insufficient ingredient information - FILTERED OUT">>
    /\ ~response.is_safe

\* the same record in lenient mode: safe, with the warning
C7_LenientCase ==
    /\ Returned
    /\ ~request.strict_mode
    /\ request.product.ingredients_text = PyStr("rice")
    /\ response.warnings = <<"VEGAN STATUS UNKNOWN: Insufficient ingredient information">>
    /\ response.is_safe

-----------------------------------------------------------------------------
(* Properties of the search loop and of its filter *)

\* C8: the loop admits at most 10 products and inspects at most 50, and goes
\* on to a further product only while fewer than 10 are admitted and fewer
\* than 50 inspected, also after a product the filter has refused.
C8_LoopStopsAtBounds ==
    /\ filtered_results <= 10
    /\ total_checked <= 50
    /\ spc = "loop" => (filtered_results < 10 /\ total_checked < 50)

\* the loop at its 51st product, none admitted so far
C8_Witness ==
    /\ spc = "judged"
    /\ total_checked = 51
    /\ filtered_results = 0
    /\ outcome.kind = "skipped"

\* C9: the filter never ends in an error, and a refusal on a nutrient is on
\* a value that is present and numeric.
C9_BadValueNotApplicable ==
    spc = "filtered" =>
        /\ outcome.r # "raise"
        /\ (outcome.r = "reject" /\ outcome.bound # "nuts")
              => outcome.value # PyNone /\ ToFloat(outcome.value).ok

\* low_fat on a record whose fat is "n/a": the conversion raises ValueError
C9_Witness ==
    /\ spc = "filtered"
    /\ Truthy(filters.low_fat)
    /\ NutrimentValue(Get(cur.nutriments, PyDict(<<>>)).d, "fat_100g", "fat") = PyStr("n/a")
    /\ outcome = [r |-> "raise", error |-> "ValueError"]

\* the effective maximum as C10 words it, the implicit bound in tenths
ExpectedLimit(max, low, implicit) ==
    IF max.t \in {"int", "float"} THEN max
    ELSE IF low = PyBool(TRUE) THEN PyFloat(implicit)
    ELSE PyNone

\* the filters with the shorthand of fat written out as max_fat = 3.0
FatWrittenOut == [filters EXCEPT !.low_fat = PyBool(FALSE), !.max_fat = PyFloat(30)]

\* C10: the effective maximum of fat, fiber, sugar and salt is the explicit
\* max_X when one is given, else 3.0, 3.0, 5.0, 0.3 when low_X is set, else
\* none; low_fat alone admits and refuses the records max_fat = 3.0 does.
C10_ExplicitOverridesShorthand ==
    spc \in {"filter", "filtered"} =>
        /\ limits.fat_limit = ExpectedLimit(filters.max_fat, filters.low_fat, 30)
        /\ limits.fiber_limit = ExpectedLimit(filters.max_fiber, filters.low_fiber, 30)
        /\ limits.sugar_limit = ExpectedLimit(filters.max_sugar, filters.low_sugar, 50)
        /\ limits.salt_limit = ExpectedLimit(filters.max_salt, filters.low_salt, 3)
        /\ (spc = "filtered" /\ filters.low_fat = PyBool(TRUE) /\ filters.max_fat = PyNone)
              => outcome = meets_nutrient_filters(cur, FatWrittenOut, ComputeLimits(FatWrittenOut))

\* low_fat with max_fat = 10.0 lets a record with 3.1 g of fat through
C10_Witness ==
    /\ spc = "filtered"
    /\ filters.low_fat = PyBool(TRUE)
    /\ filters.max_fat = PyFloat(100)
    /\ limits.fat_limit = PyFloat(100)
    /\ NutrimentValue(Get(cur.nutriments, PyDict(<<>>)).d, "fat_100g", "fat") = PyFloat(31)
    /\ outcome.r = "pass"

\* low_fat alone refuses that record, with the limit 3.0
C10_ShorthandCase ==
    /\ spc = "filtered"
    /\ filters.low_fat = PyBool(TRUE)
    /\ filters.max_fat = PyNone
    /\ outcome = Reject("Fat", "limit", PyFloat(31), PyFloat(30))

-----------------------------------------------------------------------------
(* Further properties of analyze_product_safety *)

\* C11: analyze_product_safety is total: with a profile active it returns a
\* tuple (is_safe, warnings, recommendations) for every record, also one with
\* a field that is absent, empty, null or no number, and never raises.
C11_AnalysisIsTotal ==
    (Classified /\ USER_PROFILE # PyNone) => response.kind = "verdict"

\* the low_sugar preference and a record whose sugars_100g is the string
\* "12": the comparison with 5 raises TypeError
C11_Witness ==
    /\ Classified
    /\ USER_PROFILE # PyNone
    /\ Preference(USER_PROFILE.d, "low_sugar")
    /\ DictGet(Get(request.product.nutriments, PyDict(<<>>)).d, "sugars_100g", PyInt(0))
          = PyStr("12")
    /\ response = [success |-> FALSE, kind |-> "raised", error |-> "TypeError"]

\* a record whose ingredients_text is null: AttributeError with any profile
C11_NullText ==
    /\ Classified
    /\ USER_PROFILE # PyNone
    /\ request.product.ingredients_text = PyNone
    /\ response = [success |-> FALSE, kind |-> "raised", error |-> "AttributeError"]

-----------------------------------------------------------------------------
(* Properties of the profile's life and of repeated calls *)

\* a step that takes up a call of the function `func`
Starts(func) == pc = "idle" /\ pc' # "idle" /\ request'.func = func

\* a step that answers a call of the function `func`
Answers(func) == pc # "responded" /\ pc' = "responded" /\ request'.func = func

\* a key the parameters leave out is no key of the profile
OmittedStayOut(params, profile) ==
    /\ params.allergies = Absent => profile.allergies = Absent
    /\ params.intolerances = Absent => profile.intolerances = Absent
    /\ params.medical_conditions = Absent => profile.medical_conditions = Absent
    /\ params.dietary_preferences = Absent => profile.dietary_preferences = Absent
    /\ params.avoid_additives = Absent => profile.avoid_additives = Absent
    /\ params.nutrient_limits = Absent => profile.nutrient_limits = Absent

\* a call of set_user_profile past its parameters: it has installed the new
\* profile, and its next step answers success whatever becomes of the file
Succeeding == pc = "saving" /\ request.func = "set_user_profile"

C12_Step ==
    /\ USER_PROFILE' = PyNone \/ USER_PROFILE'.t = "dict"
    /\ Succeeding' =>
          /\ USER_PROFILE' = ParseProfile(request'.params)
          /\ OmittedStayOut(request'.params, USER_PROFILE'.d)
    /\ Succeeding => Answers("set_user_profile") /\ response'.success
    /\ (Answers("set_user_profile") /\ response'.success) =>
          /\ USER_PROFILE' = ParseProfile(request'.params)
          /\ OmittedStayOut(request'.params, USER_PROFILE'.d)
    /\ (Starts("clear_user_profile") \/ Answers("clear_user_profile")) => USER_PROFILE' = PyNone
    /\ (USER_PROFILE = PyNone /\ ~(Starts("set_user_profile") /\ Succeeding'))
          => USER_PROFILE' = PyNone
    /\ (Answers("analyze_product_safety") /\ USER_PROFILE = PyNone) =>
          /\ response'.kind = "verdict"
          /\ response'.is_safe = TRUE
          /\ response'.warnings = <<>>

\* C12: there is one active profile or none; a successful set_user_profile
\* makes the profile what its parameters say and nothing of the profile
\* before it, from its assignment on and whether or not the file gets
\* written; clear_user_profile leaves no profile; only a set_user_profile
\* that answers success ends the time without a profile, and every
\* classification in that time returns is_safe = true and no warning.
C12_ProfileLifecycle == [][C12_Step]_vars

\* a set_user_profile with the allergy nuts was answered earlier; now no
\* profile is active and the almond record is classified safe, no warning
C12_Witness ==
    /\ earlier.request.func = "set_user_profile"
    /\ earlier.profile # PyNone
    /\ earlier.profile.d.allergies = Strs(<<"nuts">>)
    /\ Classified
    /\ USER_PROFILE = PyNone
    /\ request.product.ingredients_text = PyStr("contains almond flour")
    /\ response.kind = "verdict" /\ response.is_safe /\ response.warnings = <<>>

\* a profile with a vegan preference only, set after one with the allergy
\* Milk, intolerances and limits: none of those is left
C12_Replaced ==
    /\ earlier.request.func = "set_user_profile"
    /\ earlier.profile # PyNone
    /\ earlier.profile.d.allergies = Strs(<<"Milk">>)
    /\ pc = "responded"
    /\ request.func = "set_user_profile"
    /\ response.success
    /\ USER_PROFILE.d.allergies = Absent
    /\ USER_PROFILE.d.nutrient_limits = Absent
    /\ Preference(USER_PROFILE.d, "vegan")

\* a call of analyze_product_safety between its first line and its return
Classifying == pc = "classifying"

\* the answered call has the arguments and the profile of the call kept
SameCallAsEarlier ==
    /\ earlier.request.func = "analyze_product_safety"
    /\ earlier.request = request'
    /\ earlier.profile = USER_PROFILE

C13_Step ==
    /\ (Classifying \/ Classifying') =>
          /\ USER_PROFILE' = USER_PROFILE
          /\ PROFILE_FILE' = PROFILE_FILE
    /\ Classifying' => reader'.product = request'.product
    /\ (Classifying /\ Classifying') => reader'.product = reader.product
    /\ Answers("analyze_product_safety") =>
          /\ request' = request
          /\ SameCallAsEarlier => response' = earlier.response

\* C13: no line of a classification changes the profile, its file or the
\* record the call was given, and a record classified against the profile
\* and in the mode of an earlier classification, whatever calls were
\* answered in between, gets the answer the earlier one got: the call starts
\* from new locals and nothing an earlier call has left reaches its answer.
C13_Deterministic == [][C13_Step]_vars

\* the almond record classified again against the allergy nuts after other
\* calls were answered in between: the same single warning, not safe, and
\* the list the call has built holds that warning once
C13_Witness ==
    /\ Classified
    /\ USER_PROFILE # PyNone
    /\ earlier.since >= 2
    /\ earlier.request = request
    /\ earlier.profile = USER_PROFILE
    /\ earlier.response = response
    /\ response.kind = "verdict"
    /\ response.warnings = <<"ALLERGY WARNING: Contains nuts">>
    /\ ~response.is_safe
    /\ reader.acc.warnings = response.warnings

-----------------------------------------------------------------------------
(* Properties of the course of one call of analyze_product_safety *)

\* is_safe, warnings and recommendations after the first k checks of the
\* call that was answered
RECURSIVE AfterSteps(_)
AfterSteps(k) ==
    IF k = 0 THEN NewAnalysis
    ELSE AnalysisStep(AfterSteps(k - 1), USER_PROFILE.d, request.product, request.strict_mode, k)

\* C14: in a call that returns, is_safe is true before the first check, no
\* check (allergies, intolerances, limits, vegan, vegetarian, additives,
\* recommendations) finds it false and leaves it true, and the value
\* returned is the one the last check left.
C14_SafeOnlyDowngraded ==
    Returned =>
        /\ AfterSteps(0).is_safe
        /\ \A k \in 1..NumAnalysisSteps : AfterSteps(k).is_safe => AfterSteps(k - 1).is_safe
        /\ response.is_safe = AfterSteps(NumAnalysisSteps).is_safe

\* the allergy Milk makes is_safe false, the vegan check that follows finds
\* the record labelled vegan compliant, and is_safe stays false
C14_Witness ==
    /\ Returned
    /\ ~AfterSteps(1).is_safe
    /\ Preference(USER_PROFILE.d, "vegan")
    /\ check_diet_status(request.product, "vegan", non_vegan_indicators,
                         request.strict_mode) = [ok |-> TRUE, warnings |-> <<>>]
    /\ AfterSteps(4) = AfterSteps(3)
    /\ ~response.is_safe

\* the value the record reports for a nutrient: the "_100g" key, then the
\* unsuffixed key
Resolved(key1, key2) ==
    NutrimentValue(Get(request.product.nutriments, PyDict(<<>>)).d, key1, key2)

\* a resolved value that is a number above the threshold (in tenths)
Exceeds(value, threshold) == IsNumber(value) /\ Tenths(value) > threshold

\* C15: in a call that returns, the low-sugar suggestion is among the
\* recommendations iff low_sugar is set and the resolved sugar is above 5,
\* the low-salt suggestion iff low_salt is set and the resolved salt is above
\* 1.5; is_safe and the warnings are those the checks before had left.
C15_RecommendationsFromResolved ==
    Returned =>
        /\ InSeq("Consider a low-sugar alternative", response.recommendations)
              <=> (/\ Preference(USER_PROFILE.d, "low_sugar")
                   /\ Exceeds(Resolved("sugars_100g", "sugars"), SugarAdvice))
        /\ InSeq("Consider a low-salt alternative", response.recommendations)
              <=> (/\ Preference(USER_PROFILE.d, "low_salt")
                   /\ Exceeds(Resolved("salt_100g", "salt"), SaltAdvice))
        /\ response.is_safe = AfterSteps(NumAnalysisSteps - 1).is_safe
        /\ response.warnings = AfterSteps(NumAnalysisSteps - 1).warnings

\* low_sugar is set and the record gives its sugar, 12.0, under the key
\* "sugars" only: no suggestion is made
C15_Witness ==
    /\ Returned
    /\ Preference(USER_PROFILE.d, "low_sugar")
    /\ Get(request.product.nutriments, PyDict(<<>>)).d
          = <<<<"sugars", PyFloat(120)>>, <<"salt", PyFloat(2)>>>>
    /\ Resolved("sugars_100g", "sugars") = PyFloat(120)
    /\ response.recommendations = <<>>

\* with the sugar under "sugars_100g" the suggestion is made, and is_safe
\* and the warnings are as before it
C15_SuffixedCase ==
    /\ Returned
    /\ Preference(USER_PROFILE.d, "low_sugar")
    /\ Resolved("sugars_100g", "sugars") = PyFloat(120)
    /\ response.recommendations = <<"Consider a low-sugar alternative">>
    /\ response.is_safe = AfterSteps(NumAnalysisSteps - 1).is_safe

\* what the record reports for a nutrient of the profile's limits: the value
\* under the nutrient's key, else under the key without "_100g", else nothing
Reported(nutrient) ==
    DictGet(Get(request.product.nutriments, PyDict(<<>>)).d, nutrient,
            DictGet(Get(request.product.nutriments, PyDict(<<>>)).d,
                    StrReplace(nutrient, "_100g", ""), Absent))

\* the call has warned of the nutrient's limit
WarnedHigh(nutrient) ==
    \E k \in 1..Len(response.warnings) :
        StartsWith(response.warnings[k],
                   "HIGH " \o StrUpper(StrReplace(nutrient, "_100g", "")) \o ": ")

\* the entries of the profile's nutrient limits
ProfileLimits == Get(USER_PROFILE.d.nutrient_limits, PyDict(<<>>)).d

\* C16: in a call that returns, a nutrient limit of the profile is violated
\* (the HIGH warning is given) iff the record reports a number for the
\* nutrient and the number is above the bound; a record with no value or
\* with a value that is no number violates no limit, whatever the bound.
C16_LimitsAreMaxima ==
    Returned =>
        \A i \in 1..Len(ProfileLimits) :
            WarnedHigh(ProfileLimits[i][1])
              <=> (/\ IsNumber(Reported(ProfileLimits[i][1]))
                   /\ Tenths(Reported(ProfileLimits[i][1])) > Tenths(ProfileLimits[i][2]))

\* the limit fat_100g = -1 and a record with no nutriments at all: the call
\* warns of 0 g of fat
C16_Witness ==
    /\ Returned
    /\ ProfileLimits = <<<<"fat_100g", PyInt(-1)>>>>
    /\ request.product.nutriments = Absent
    /\ response.warnings = <<"HIGH FAT: 0g (limit: -1g)">>

\* the same limit and a record whose fat is the text "n/a": no warning
C16_NoNumberCase ==
    /\ Returned
    /\ ProfileLimits = <<<<"fat_100g", PyInt(-1)>>>>
    /\ Reported("fat_100g") = PyStr("n/a")
    /\ ~WarnedHigh("fat_100g")

-----------------------------------------------------------------------------
(* Properties of the handlers' answers to a call that lacks its input *)

\* the call lacks the key: no parameters, empty ones, or ones without it
Lacks(params, key) ==
    IF params = PyNone THEN TRUE
    ELSE params.t = "dict" /\ \A i \in 1..Len(params.d) : params.d[i][1] # key

\* the step answers a call of `func` that lacks `key`
AnswersLacking(func, key) == Answers(func) /\ Lacks(request'.params, key)

\* the answer is a failure, no request went to the catalog, the profile
\* and its file are as before
RefusedWithoutEffect ==
    /\ response'.success = FALSE
    /\ catalog_requests' = 0
    /\ USER_PROFILE' = USER_PROFILE
    /\ PROFILE_FILE' = PROFILE_FILE

C17_Step ==
    /\ AnswersLacking("search_food_product", "product_name") => RefusedWithoutEffect
    /\ AnswersLacking("search_safe_food_only", "product_name") => RefusedWithoutEffect
    /\ AnswersLacking("get_product_nutrition", "barcode") => RefusedWithoutEffect
    /\ (Answers("set_user_profile") /\ request'.params = PyNone) => RefusedWithoutEffect

\* C17: search_food_product and search_safe_food_only without product_name,
\* get_product_nutrition without barcode and set_user_profile without
\* parameters return success = false, send no request to the catalog and
\* leave the active profile and its file as they were.
C17_MissingInputRefused == [][C17_Step]_vars

\* a lookup whose parameters name a product and no barcode, answered with
\* the failure while the profile with the allergy nuts stays active
C17_Witness ==
    /\ pc = "responded"
    /\ request.func = "get_product_nutrition"
    /\ request.params = PyDict(<<<<"product_name", PyStr("bread")>>>>)
    /\ response = [success |-> FALSE, kind |-> "Barcode parameter is required."]
    /\ catalog_requests = 0
    /\ USER_PROFILE # PyNone
    /\ USER_PROFILE.d.allergies = Strs(<<"nuts">>)

\* a lookup with a barcode sends its request and gives the analysis
C17_LookupCase ==
    /\ pc = "responded"
    /\ request.func = "get_product_nutrition"
    /\ catalog_requests = 1
    /\ response.success
    /\ response.warnings = <<"ALLERGY WARNING: Contains nuts">>
    /\ response.advice = "This product is NOT RECOMMENDED for your dietary profile."

\* a safe-only search with no parameters at all
C17_SafeSearchCase ==
    /\ pc = "responded"
    /\ request = [func |-> "search_safe_food_only", params |-> PyNone]
    /\ response = [success |-> FALSE, kind |-> "Product name parameter is required."]

-----------------------------------------------------------------------------
(* Properties of the order of the filter's checks *)

\* the value the filtered record reports under one of the two keys
Reports(key1, key2) == NutrimentValue(Get(cur.nutriments, PyDict(<<>>)).d, key1, key2)

\* the record reports a number, as such or as a text, above (below) the bound
Above(value, limit) ==
    limit # PyNone /\ value # PyNone /\ FloatAbove(ToFloat(value), Tenths(limit))
Below(value, limit) ==
    limit # PyNone /\ value # PyNone /\ FloatBelow(ToFloat(value), Tenths(limit))

\* the ten checks in the order of C18, each with whether the record fails it
\* and the reason of the rejection
OrderedChecks ==
    <<[fails |-> Truthy(filters.no_nuts)
                 /\ ContainsNuts(cur, Get(cur.allergens_tags, PyList(<<>>)).l,
                                  StrLower(Get(cur.ingredients_text, PyStr("")).s)),
       name |-> "Contains nuts", bound |-> "nuts"],
      [fails |-> Above(Reports("energy-kcal_100g", "energy-kcal"), limits.calorie_limit),
       name |-> "Calories", bound |-> "limit"],
      [fails |-> Above(Reports("fat_100g", "fat"), limits.fat_limit),
       name |-> "Fat", bound |-> "limit"],
      [fails |-> Above(Reports("fiber_100g", "fiber"), limits.fiber_limit),
       name |-> "Fiber", bound |-> "limit"],
      [fails |-> Above(Reports("sugars_100g", "sugars"), limits.sugar_limit),
       name |-> "Sugar", bound |-> "limit"],
      [fails |-> Above(Reports("salt_100g", "salt"), limits.salt_limit),
       name |-> "Salt", bound |-> "limit"],
      [fails |-> Below(Reports("proteins_100g", "proteins"), limits.min_protein_limit),
       name |-> "Protein", bound |-> "minimum"],
      [fails |-> Above(Reports("proteins_100g", "proteins"), limits.max_protein_limit),
       name |-> "Protein", bound |-> "maximum"],
      [fails |-> Below(Reports("energy-kcal_100g", "energy-kcal"), limits.min_calorie_limit),
       name |-> "Calories", bound |-> "minimum"],
      [fails |-> Below(Reports("fiber_100g", "fiber"), limits.min_fiber_limit),
       name |-> "Fiber", bound |-> "minimum"]>>

FailedChecks == {i \in 1..Len(OrderedChecks) : OrderedChecks[i].fails}

\* C18: the filter rejects a record with the reason of the first check it
\* fails, in the order no_nuts, the maxima of calories, fat, fiber, sugar and
\* salt, the protein minimum, the protein maximum, the calorie minimum, the
\* fiber minimum; a record that fails none is admitted.
C18_FirstFailureInOrder ==
    spc = "filtered" =>
        IF FailedChecks = {} THEN outcome.r = "pass"
        ELSE /\ outcome.r = "reject"
             /\ outcome.name = OrderedChecks[Least(FailedChecks)].name
             /\ outcome.bound = OrderedChecks[Least(FailedChecks)].bound

\* a record above the maxima of calories, fat, fiber, sugar and salt is
\* rejected for its calories
C18_Witness ==
    /\ spc = "filtered"
    /\ {2, 3, 4, 5, 6} \subseteq FailedChecks
    /\ outcome = Reject("Calories", "limit", PyInt(101), PyInt(100))

\* a record that fails no check and whose fat is the text "n/a", with
\* low_fat set: the filter ends in ValueError and admits nothing
C18_RaisedCase ==
    /\ spc = "filtered"
    /\ FailedChecks = {}
    /\ Reports("fat_100g", "fat") = PyStr("n/a")
    /\ outcome = Raise("ValueError")

\* a record with nuts whose fat is above the limit is rejected for the nuts
C18_NutsFirstCase ==
    /\ spc = "filtered"
    /\ {1, 3} \subseteq FailedChecks
    /\ outcome.r = "reject"
    /\ outcome.bound = "nuts"

-----------------------------------------------------------------------------
(* Properties of the nut detection on the nutrient breakdown *)

\* the text the detection reads: str(nutriments).lower()
BreakdownText == StrLower(Str(Get(request.product.nutriments, PyDict(<<>>))))

\* a number starts at j and is followed by "%"
PercentageAt(t, j) == PercentAt(t, j) > 0 /\ (j = 1 \/ ~IsDigit(Char(t, j - 1)))

\* a nut word of the pattern stands at k and the percentage at j follows it
\* with no brace and no quote from the word to the "%"
FollowsNutWord(t, k, j) ==
    /\ \E w \in 1..Len(pattern_words) :
          MatchAt(t, k, pattern_words[w]) /\ k + Len(pattern_words[w]) <= j
    /\ \A x \in k..PercentAt(t, j) : ~Refused(Char(t, x))

\* the percentages that follow a nut word of the breakdown
NutPercentages(t) ==
    {j \in 1..Len(t) : PercentageAt(t, j) /\ \E k \in 1..j : FollowsNutWord(t, k, j)}

\* the percentage at j is above 0
Positive(t, j) == PositivePercentage(SubSeq(t, j, NumberGroupEnd(t, j)))

\* the profile names a nut allergy and the record gives no nut signal in
\* its allergen tags, its ingredients or its other texts and tags
OnlyBreakdownSignal ==
    /\ \E i \in 1..Len(ProfileList(USER_PROFILE.d.allergies)) :
          StrLower(ProfileList(USER_PROFILE.d.allergies)[i].s) \in nut_allergy_names
    /\ ~HasNutAllergen(Get(request.product.allergens_tags, PyList(<<>>)).l)
    /\ ~HasNutKeyword(IngredientsText(request.product))
    /\ ~HasNutInAdditionalFields(request.product)

\* the call has warned of a nut allergy of the profile
NutsDetected ==
    \E i \in 1..Len(ProfileList(USER_PROFILE.d.allergies)) :
        /\ StrLower(ProfileList(USER_PROFILE.d.allergies)[i].s) \in nut_allergy_names
        /\ InSeq(AllergyWarning(ProfileList(USER_PROFILE.d.allergies)[i]), response.warnings)

BreakdownDecides(t, pcts) ==
    /\ (pcts # {} /\ \A j \in pcts : ~Positive(t, j)) => ~NutsDetected
    /\ (\E j \in pcts : Positive(t, j)) => NutsDetected
    /\ (pcts = {} /\ HasNutKeyword(t) /\ NutsDetected)
          => \E i \in 1..Len(nutriments_phrases) : StrIn(nutriments_phrases[i], t)

\* C19: with a nut allergy in the profile and no nut signal in any other
\* field, a breakdown whose nut words are followed only by percentages of 0
\* is not detected, one with a nut word followed by a percentage above 0 is
\* detected, and one with a nut keyword and no percentage is detected only
\* if it holds "may contain nuts", "may contain nut", "contains nuts" or
\* "contains nut".
C19_BreakdownPercentages ==
    (Returned /\ OnlyBreakdownSignal)
        => BreakdownDecides(BreakdownText, NutPercentages(BreakdownText))

\* the breakdown "hazelnut 2.5%, peanut 0%": 2.5 % of hazelnut, and no
\* allergy warning
C19_Witness ==
    /\ Returned
    /\ OnlyBreakdownSignal
    /\ BreakdownText = "{'note': 'hazelnut 2.5%, peanut 0%'}"
    /\ \E j \in NutPercentages(BreakdownText) : Positive(BreakdownText, j)
    /\ ~NutsDetected

\* the breakdown "Hazelnut: 2.5%" alone is detected
C19_DetectedCase ==
    /\ Returned
    /\ OnlyBreakdownSignal
    /\ DictGet(Get(request.product.nutriments, PyDict(<<>>)).d, "note", PyNone)
          = PyStr("Hazelnut: 2.5%")
    /\ NutsDetected

\* the breakdown "nuts 0 %" alone is not
C19_ZeroCase ==
    /\ Returned
    /\ OnlyBreakdownSignal
    /\ NutPercentages(BreakdownText) # {}
    /\ \A j \in NutPercentages(BreakdownText) : ~Positive(BreakdownText, j)
    /\ ~NutsDetected

\* "May contain nut traces" with no percentage is detected, "walnut oil" is not
C19_PhraseCase ==
    /\ Returned
    /\ OnlyBreakdownSignal
    /\ NutPercentages(BreakdownText) = {}
    /\ StrIn("may contain nut", BreakdownText)
    /\ NutsDetected
C19_KeywordOnlyCase ==
    /\ Returned
    /\ OnlyBreakdownSignal
    /\ BreakdownText = "{'note': 'walnut oil'}"
    /\ ~NutsDetected

-----------------------------------------------------------------------------
(* Properties of the detection of an allergen that is no nut *)

\* the allergen tags of the record that was classified
AllergenTags == Get(request.product.allergens_tags, PyList(<<>>)).l

\* the record with its allergen tags in the opposite order
TagsReversed ==
    IF request.product.allergens_tags = Absent THEN request.product
    ELSE [request.product EXCEPT
             !.allergens_tags =
                 PyList([i \in 1..Len(AllergenTags) |-> AllergenTags[Len(AllergenTags) + 1 - i]])]

\* the lower-cased name is part of a lower-cased allergen tag or of the
\* lower-cased ingredients text
NamedByRecord(name) ==
    \/ \E i \in 1..Len(AllergenTags) : StrIn(StrLower(name), StrLower(AllergenTags[i].s))
    \/ StrIn(StrLower(name), StrLower(Get(request.product.ingredients_text, PyStr("")).s))

\* C20: in a call that returns, an allergy of the profile other than nuts,
\* nut and tree nuts has its warning iff its lower-cased name is part of a
\* lower-cased allergen tag or of the lower-cased ingredients text, and the
\* call answers the same for the record with its allergen tags reversed.
C20_GenericAllergen ==
    Returned =>
        /\ \A i \in 1..Len(ProfileList(USER_PROFILE.d.allergies)) :
              StrLower(ProfileList(USER_PROFILE.d.allergies)[i].s) \notin nut_allergy_names
                => (InSeq(AllergyWarning(ProfileList(USER_PROFILE.d.allergies)[i]),
                          response.warnings)
                      <=> NamedByRecord(ProfileList(USER_PROFILE.d.allergies)[i].s))
        /\ response = Verdict(analyze_product_safety(USER_PROFILE, TagsReversed,
                                                     request.strict_mode))

\* the allergy Gluten and the tags en:milk, en:gluten, nothing in the text:
\* the second tag is found
C20_Witness ==
    /\ Returned
    /\ InSeq(PyStr("Gluten"), ProfileList(USER_PROFILE.d.allergies))
    /\ request.product.allergens_tags = Strs(<<"en:milk", "en:gluten">>)
    /\ TagsReversed # request.product
    /\ ~StrIn("gluten", IngredientsText(request.product))
    /\ InSeq("ALLERGY WARNING: Contains Gluten", response.warnings)
    /\ ~response.is_safe

\* the allergy Milk found in the text of a record with no allergen tag
C20_TextCase ==
    /\ Returned
    /\ ProfileList(USER_PROFILE.d.allergies) = <<PyStr("Milk")>>
    /\ AllergenTags = <<>>
    /\ request.product.ingredients_text = PyStr("milk, sugar, wheat flour")
    /\ InSeq("ALLERGY WARNING: Contains Milk", response.warnings)

-----------------------------------------------------------------------------
(* C21: the profile a classification finds while set_user_profile and      *)
(* clear_user_profile replace it                                           *)

\* the call has returned or raised and its caller has not yet answered
ReaderFinished == Classifying /\ reader.at = ReaderDone

\* every read of a running classification has found the one profile that
\* is active, and what the call returns is what that profile gives
C21_Reads ==
    /\ Classifying => reader.seen = {USER_PROFILE}
    /\ ReaderFinished =>
          reader.acc = analyze_product_safety(USER_PROFILE, request.product,
                                              request.strict_mode)

\* the profile changes in two ways only: the one assignment of
\* set_user_profile, to the value built from the parameters of the call,
\* and the one of clear_user_profile, to None; while the new value is
\* built the profile is the old one
C21_Step ==
    /\ USER_PROFILE' # USER_PROFILE =>
          \/ /\ pc = "building" /\ pc' = "saving"
             /\ USER_PROFILE' = ParseProfile(request.params)
          \/ Starts("clear_user_profile") /\ USER_PROFILE' = PyNone
    /\ pc' = "building" => USER_PROFILE' = USER_PROFILE

    /\ InSeq("ALLERGY WARNING: Contains Milk", reader.acc.warnings)

\* set_user_profile has built a new profile and not yet installed it: the
\* active profile is the old one, with its own allergies
C21_BuildingCase ==
    /\ pc = "building"
    /\ USER_PROFILE # PyNone
    /\ USER_PROFILE # ParseProfile(request.params)
    /\ USER_PROFILE.d.allergies # Absent
    /\ request.params.allergies = Absent

\* a classification started after clear_user_profile: it has read None and
\* returned at once
C21_ClearedCase ==
    /\ ReaderFinished
    /\ reader.seen = {PyNone}
    /\ earlier.request.func = "clear_user_profile"
    /\ reader.acc = NewAnalysis

-----------------------------------------------------------------------------
(* C22: the negative indicators of check_diet_status *)

\* the places in the list of the indicators the ingredients text holds
Occurring(non_diet_indicators) ==
    {i \in 1..Len(non_diet_indicators) :
        StrIn(non_diet_indicators[i],
              StrLower(Get(request.product.ingredients_text, PyStr("")).s))}

\* how often the warning that names the indicator is among the warnings
TimesNamed(diet_type, indicator) ==
    Cardinality({k \in 1..Len(response.warnings) :
        response.warnings[k] = "NOT " \o StrUpper(diet_type) \o ": Contains " \o indicator})

\* the diet check comes to its indicators: the preference is enabled, the
\* text holds no "status unknown" phrase and no label tag names the diet
IndicatorsScanned(diet_type) ==
    /\ Preference(USER_PROFILE.d, diet_type)
    /\ ~StrIn(diet_type \o " status unknown",
              StrLower(Get(request.product.ingredients_text, PyStr("")).s))
    /\ ~IsExplicitlyLabeled(request.product, diet_type)

\* C22 for one diet
FirstIndicatorOnly(diet_type, non_diet_indicators) ==
    (IndicatorsScanned(diet_type) /\ Occurring(non_diet_indicators) # {}) =>
        /\ response.is_safe = FALSE
        /\ \A i \in 1..Len(non_diet_indicators) :
              TimesNamed(diet_type, non_diet_indicators[i])
                 = IF /\ i \in Occurring(non_diet_indicators)
                      /\ \A j \in Occurring(non_diet_indicators) : i <= j
                   THEN 1 ELSE 0

\* C22: with no "status unknown" phrase and no diet label, the first
\* indicator of the list that occurs in the ingredients text makes the
\* record non-compliant with one "NOT <DIET>: Contains <indicator>" warning,
\* and no later indicator is reported, though it occurs too.
C22_FirstIndicatorWins ==
    Returned =>
        /\ FirstIndicatorOnly("vegan", non_vegan_indicators)
        /\ FirstIndicatorOnly("vegetarian", non_vegetarian_indicators)

\* a text that holds beef before lactose: lactose, earlier in the list of the
\* vegan check, is the one reported
C22_Witness ==
    /\ Returned
    /\ IndicatorsScanned("vegan")
    /\ request.product.ingredients_text = PyStr("Beef stock, Lactose, pepper")
    /\ Cardinality(Occurring(non_vegan_indicators)) = 2
    /\ TimesNamed("vegan", "lactose") = 1
    /\ TimesNamed("vegan", "beef") = 0
    /\ ~response.is_safe

\* both diets enabled: each check reports its own first indicator
C22_BothDietsCase ==
    /\ Returned
    /\ IndicatorsScanned("vegan")
    /\ IndicatorsScanned("vegetarian")
    /\ TimesNamed("vegan", "lactose") = 1
    /\ TimesNamed("vegetarian", "beef") = 1
    /\ Len(response.warnings) = 2

-----------------------------------------------------------------------------
(* C23: the diet label of check_diet_status *)

\* some label tag of the record holds the diet, whatever the case of its letters
TagNamesDiet(diet_type) ==
    \E i \in 1..Len(ProfileList(request.product.labels_tags)) :
        StrIn(diet_type, StrLower(ProfileList(request.product.labels_tags)[i].s))

\* the ingredients text of the record, lower-cased
LoweredText == StrLower(Get(request.product.ingredients_text, PyStr("")).s)

\* the warnings that are not of the diet check
OtherWarnings(diet_type) ==
    {k \in 1..Len(response.warnings) : ~IsDietWarning(response.warnings[k], diet_type)}

\* C23 for one diet
LabelDecides(diet_type, non_diet_indicators) ==
    (/\ Preference(USER_PROFILE.d, diet_type)
     /\ ~StrIn(diet_type \o " status unknown", LoweredText)
     /\ TagNamesDiet(diet_type))
       => /\ check_diet_status(request.product, diet_type, non_diet_indicators,
                               request.strict_mode) = [ok |-> TRUE, warnings |-> <<>>]
          /\ OtherWarnings(diet_type) = 1..Len(response.warnings)
          /\ response.warnings = <<>> => response.is_safe

\* C23: with no "<diet> status unknown" phrase in the text and a label tag
\* that holds the diet in any case, check_diet_status answers compliant and
\* no warning of the diet is given, also for a text that holds negative
\* indicators or is empty or shorter than 20 characters, in both modes.
C23_LabelMakesCompliant ==
    Returned =>
        /\ LabelDecides("vegan", non_vegan_indicators)
        /\ LabelDecides("vegetarian", non_vegetarian_indicators)

\* a record tagged en:Vegan whose text names milk: the vegan check is silent
C23_Witness ==
    /\ Returned
    /\ Preference(USER_PROFILE.d, "vegan")
    /\ ~Preference(USER_PROFILE.d, "vegetarian")
    /\ TagNamesDiet("vegan")
    /\ LoweredText = "milk, sugar, wheat flour"
    /\ ProfileList(USER_PROFILE.d.allergies) = <<>>
    /\ response.warnings = <<>>
    /\ response.is_safe

\* a tagged record without any text, in strict mode
C23_EmptyStrictCase ==
    /\ Returned
    /\ request.strict_mode
    /\ Preference(USER_PROFILE.d, "vegetarian")
    /\ TagNamesDiet("vegetarian")
    /\ request.product.ingredients_text = Absent
    /\ OtherWarnings("vegetarian") = 1..Len(response.warnings)
    /\ response.is_safe

-----------------------------------------------------------------------------
(* C24: one resolution of a nutrient for every comparison *)

\* the nutrients a comparison reads, by their unsuffixed key
NutrientKeys == {"energy-kcal", "fat", "fiber", "sugars", "salt", "proteins"}

\* the items of a nutriments dict with every nutrient that is reported under
\* its unsuffixed key only moved to its "_100g" key
UnderSuffixedKeys(items) ==
    [i \in 1..Len(items) |->
        IF items[i][1] \in NutrientKeys /\ ~HasKey(items, items[i][1] \o "_100g")
        THEN <<items[i][1] \o "_100g", items[i][2]>>
        ELSE items[i]]

\* the same record reporting under the suffixed keys
Suffixed(product) ==
    IF product.nutriments.t = "dict"
    THEN [product EXCEPT !.nutriments = PyDict(UnderSuffixedKeys(product.nutriments.d))]
    ELSE product

\* the record of the call reports some nutrient under its unsuffixed key only
ReportsUnsuffixedOnly == Suffixed(request.product) # request.product

\* C24: a record that reports a nutrient only under the unsuffixed key is
\* judged as the record that reports it under the "_100g" key: the profile
\* limits and the recommendations resolve the suffixed key first and fall
\* back to the unsuffixed one.
C24_OneResolution ==
    Returned =>
        response = Verdict(analyze_product_safety(USER_PROFILE, Suffixed(request.product),
                                                  request.strict_mode))

\* low_sugar is set, the record gives 12.0 under "sugars": nothing is
\* suggested, while the suggestion is made for 12.0 under "sugars_100g"
C24_Witness ==
    /\ Returned
    /\ ReportsUnsuffixedOnly
    /\ Preference(USER_PROFILE.d, "low_sugar")
    /\ Resolved("sugars_100g", "sugars") = PyFloat(120)
    /\ response.recommendations = <<>>
    /\ Verdict(analyze_product_safety(USER_PROFILE, Suffixed(request.product),
                                      request.strict_mode)).recommendations
          = <<"Consider a low-sugar alternative">>

\* the profile limit is compared with the value under either key
C24_LimitFallbackCase ==
    /\ Returned
    /\ ReportsUnsuffixedOnly
    /\ InSeq("HIGH SUGARS: 12.0g (limit: 10g)", response.warnings)

-----------------------------------------------------------------------------
(* C25: the no_nuts filter and the nut allergy of the analyzer *)

\* the filters of a search that asks for no_nuts only
NoNutsFilters == ExtractFilters([Named EXCEPT !.no_nuts = PyBool(TRUE)])

\* a profile whose allergies are ['nuts']
NutsProfile == ParseProfile([NoParams EXCEPT !.allergies = Strs(<<"nuts">>)])

\* the filter rejects the record of the call with "Contains nuts"
FilterFindsNuts ==
    meets_nutrient_filters(request.product, NoNutsFilters, ComputeLimits(NoNutsFilters))
       = [r |-> "reject", name |-> "Contains nuts", bound |-> "nuts", value |-> PyNone,
          limit |-> PyNone]

\* the analyzer warns of the allergy for the record of the call
AnalyzerFindsNuts ==
    InSeq("ALLERGY WARNING: Contains nuts",
          analyze_product_safety(NutsProfile, request.product, request.strict_mode).warnings)

\* C25: for every record whose ingredients text is a text, the filter with
\* no_nuts rejects it with "Contains nuts" iff the analyzer, with a profile
\* whose allergies are ['nuts'], warns of the allergy.
C25_SameNutDetector ==
    (Classified /\ Get(request.product.ingredients_text, PyStr("")).t = "str")
       => (FilterFindsNuts <=> AnalyzerFindsNuts)

\* a record that names a nut in its product name only: the call, made with
\* the nut allergy in the profile, warns, and the filter rejects the record
C25_Witness ==
    /\ Returned
    /\ USER_PROFILE.d.allergies = Strs(<<"nuts", "Gluten">>)
    /\ request.product.product_name = PyStr("Walnut Bread")
    /\ ~HasNutKeyword(IngredientsText(request.product))
    /\ InSeq("ALLERGY WARNING: Contains nuts", response.warnings)
    /\ AnalyzerFindsNuts
    /\ FilterFindsNuts

\* a record with "nuts 0 %" in its nutriments: neither finds nuts
C25_NeitherCase ==
    /\ Returned
    /\ DictGet(Get(request.product.nutriments, PyDict(<<>>)).d, "note", PyNone) = PyStr("nuts 0 %")
    /\ ~AnalyzerFindsNuts
    /\ ~FilterFindsNuts

-----------------------------------------------------------------------------
(* C26: the comparisons of the search filter *)

\* the filter rejects the record with the reason of the check
RejectedBy(check) ==
    outcome.r = "reject" /\ outcome.name = check.name /\ outcome.bound = check.bound

\* C26 for one bound: the record is rejected for the bound only if its value
\* is beyond it, and is rejected if its value is beyond it
BoundIsStrict(check) ==
    /\ RejectedBy(check) => check.fails
    /\ check.fails => outcome.r = "reject"

\* C26: for each maximum of the filter a record is rejected iff the value it
\* reports is above the bound, for each minimum iff it is below; a value
\* equal to the bound is admitted.
C26_BoundsAreStrict ==
    spc = "filtered" => \A k \in 2..Len(OrderedChecks) : BoundIsStrict(OrderedChecks[k])

\* 40 kcal with a minimum of 100 and a protein that is no number: the record
\* is not rejected, the filter ends in ValueError
C26_Witness ==
    /\ spc = "filtered"
    /\ limits.min_calorie_limit = PyInt(100)
    /\ limits.min_protein_limit = PyNone /\ limits.max_protein_limit = PyNone
    /\ Reports("energy-kcal_100g", "energy-kcal") = PyInt(40)
    /\ Reports("proteins_100g", "proteins") = PyStr("unknown")
    /\ outcome = Raise("ValueError")

\* a fat of 3.0 with the bound 3 is admitted
C26_EqualCase ==
    /\ spc = "filtered"
    /\ limits.fat_limit = PyFloat(LowFatLimit)
    /\ Reports("fat_100g", "fat") = PyFloat(30)
    /\ outcome = Pass

\* a fat of 3.1 with the bound 3 is rejected
C26_AboveCase ==
    /\ spc = "filtered"
    /\ limits.fat_limit = PyFloat(30)
    /\ Reports("fat_100g", "fat") = PyFloat(31)
    /\ outcome = Reject("Fat", "limit", PyFloat(31), PyFloat(30))

-----------------------------------------------------------------------------
(* C27: the verdict and the warnings *)

\* C27: with a profile active, a call that returns is_safe = false returns
\* some warning, in both modes; in strict mode is_safe is true iff there is
\* no warning, so `is_safe and not warnings` of the safe-only search selects
\* the records with is_safe = true.
C27_VerdictFollowsWarnings ==
    Returned =>
        /\ response.is_safe = FALSE => response.warnings # <<>>
        /\ request.strict_mode => (response.is_safe <=> response.warnings = <<>>)

\* a strict call whose one warning is the avoided additive: not safe
C27_Witness ==
    /\ Returned
    /\ request.strict_mode
    /\ response.warnings = <<"CONTAINS AVOIDED ADDITIVE: E330">>
    /\ ~response.is_safe

\* a lenient call with a warning and is_safe = true
C27_LenientCase ==
    /\ Returned
    /\ ~request.strict_mode
    /\ response.warnings # <<>>
    /\ response.is_safe

\* a strict call of a profile with entries that finds nothing
C27_StrictSafeCase ==
    /\ Returned
    /\ request.strict_mode
    /\ ProfileList(USER_PROFILE.d.allergies) # <<>>
    /\ Preference(USER_PROFILE.d, "vegan")
    /\ response.warnings = <<>>
    /\ response.is_safe

-----------------------------------------------------------------------------
(* C28: the profile file and the profile in memory *)

\* the call answered is a set_user_profile or a clear_user_profile whose
\* file I/O has succeeded
FileIoSucceeded == pc = "responded" /\ file_io \in {"saved", "removed", "no file"}

\* C28: after a set_user_profile or clear_user_profile whose file I/O
\* succeeds the profile file exists iff a profile is active, and
\* load_user_profile at the next start gives the profile that is active: the
\* last one set, or none after a clear.
C28_FileAgreesWithMemory ==
    FileIoSucceeded =>
        /\ PROFILE_FILE # Absent <=> USER_PROFILE # PyNone
        /\ LoadedProfile(PROFILE_FILE) = USER_PROFILE

\* a profile set from the text " ['diabetes', (1, 2)] ": the tuple of the
\* profile in memory is a list in the file
C28_Witness ==
    /\ pc = "responded"
    /\ request.func = "set_user_profile"
    /\ response.success
    /\ file_io = "saved"
    /\ USER_PROFILE.d.medical_conditions = PyList(<<PyStr("diabetes"), PyTuple(<<PyInt(1), PyInt(2)>>)>>)
    /\ LoadedProfile(PROFILE_FILE).d.medical_conditions
          = PyList(<<PyStr("diabetes"), PyList(<<PyInt(1), PyInt(2)>>)>>)

\* a profile set from JSON text: the file gives it back
C28_JsonCase ==
    /\ pc = "responded"
    /\ request.func = "set_user_profile"
    /\ file_io = "saved"
    /\ USER_PROFILE.d.medical_conditions = PyList(<<PyStr("diabetes"), PyInt(2)>>)
    /\ USER_PROFILE.d.avoid_additives = Strs(<<"E330">>)
    /\ USER_PROFILE.d.intolerances = PyList(<<>>)
    /\ LoadedProfile(PROFILE_FILE) = USER_PROFILE

\* after a clear there is no file and no profile
C28_ClearedCase ==
    /\ pc = "responded"
    /\ request.func = "clear_user_profile"
    /\ file_io = "removed"
    /\ PROFILE_FILE = Absent
    /\ USER_PROFILE = PyNone

\* the file could not be written: the call answers success, the new profile
\* is active and the file still holds the profile set before
C28_UnwrittenCase ==
    /\ pc = "responded"
    /\ request.func = "set_user_profile"
    /\ response.success
    /\ file_io = "save failed"
    /\ PROFILE_FILE # Absent
    /\ USER_PROFILE = ParseProfile(request.params)
    /\ LoadedProfile(PROFILE_FILE) # USER_PROFILE

\* the file could not be removed: the call answers success, no profile is
\* active and the next start would load the file's
C28_UnremovedCase ==
    /\ pc = "responded"
    /\ request.func = "clear_user_profile"
    /\ response.success
    /\ file_io = "remove failed"
    /\ USER_PROFILE = PyNone
    /\ PROFILE_FILE # Absent

-----------------------------------------------------------------------------
(* The command loop *)

\* the tool calls a handler has run for, in the order it ran: the answered
\* ones and the one whose handler ran last
Handled == IF request = NoRequest THEN loop.answered ELSE Append(loop.answered, request)

IsPrefix(a, b) == Len(a) <= Len(b) /\ SubSeq(b, 1, Len(a)) = a

\* C29: the tool calls are handled one at a time in the order received;
\* each handled call, an unknown function name included, is in its handler
\* or has its one response before the next is handled; once shutdown is
\* answered the loop has ended and no later call is handled
C29_OneResponsePerCall ==
    /\ IsPrefix(Handled, loop.received)
    /\ Len(Handled) > Len(loop.answered) => pc \in {"saving", "removing", "responded"}
    /\ \A i \in 1..(Len(Handled) - 1) : Handled[i].func # "shutdown"
    /\ (loop.answered # <<>> /\ loop.answered[Len(loop.answered)].func = "shutdown")
          => pc = "stopped"

\* a shutdown is answered after another call, and the call received after
\* it stays unhandled
C29_Witness ==
    /\ pc = "stopped"
    /\ Len(loop.answered) = 2
    /\ loop.inbox # <<>>

\* an unknown function name is answered and the loop reads on
C29_UnknownCase ==
    /\ pc = "idle"
    /\ loop.answered # <<>>
    /\ loop.answered[Len(loop.answered)].func \notin KnownFunctions

\* get_user_profile has left main() with a TypeError: its call and the one
\* behind it stay unanswered
C29_RaisedCase ==
    /\ pc = "raised"
    /\ request.func = "get_user_profile"
    /\ Len(loop.inbox) = 2

-----------------------------------------------------------------------------
(* The safe-only search *)

\* search_safe_food_only has run for the call being answered
SafeSearchRan == request.func = "search_safe_food_only" /\ pc \in {"responded", "raised"}

\* the products the response lists
Listed == IF response.kind = "Found SAFE products" THEN response.listed ELSE 0

\* C30: search_safe_food_only lists at most 10 products and analyses at most
\* 20 candidates in the diet-specific and the general search together, each
\* with strict_mode = true; without an active profile it returns a failure
\* and analyses no candidate
C30_SafeSearchIsBounded ==
    SafeSearchRan =>
        /\ Listed <= 10
        /\ analyses.count <= 20
        /\ analyses.modes \subseteq {TRUE}
        /\ USER_PROFILE = PyNone =>
              pc = "responded" /\ ~response.success /\ analyses.count = 0

\* both searches were made, twenty candidates analysed in strict mode, and
\* the safe ones among them listed
C30_Witness ==
    /\ SafeSearchRan
    /\ catalog_requests >= 2
    /\ analyses = [count |-> 20, modes |-> {TRUE}]
    /\ Listed = 4

\* the tenth safe product ends the search
C30_TenListedCase ==
    /\ SafeSearchRan
    /\ Listed = 10
    /\ response.first_ten
    /\ analyses.count > 10

\* a search with a product name and without a profile
C30_NoProfileCase ==
    /\ SafeSearchRan
    /\ USER_PROFILE = PyNone
    /\ ~Missing(request.params, "product_name")
    /\ response.kind = "No dietary profile set."

====
